---- MODULE Spec2Model ----
(***************************************************************************)
(* MantraOS kernel core: the int-0x80 dispatcher (arch/x86_64/isr.rs), the *)
(* endpoint rings and waiter rings (ipc.rs), the process table and the     *)
(* round-robin scheduler (sched.rs) and PROC_SPAWN (user.rs).              *)
(*                                                                         *)
(* One step of the model is one kernel entry run to completion, from the   *)
(* asm stub that saves the frame to the iretq of mantra_trap_return (the   *)
(* kernel is single-CPU and never re-enables interrupts inside a handler). *)
(* What user code does between two entries shows as the arguments of the   *)
(* next entry.                                                             *)
(*                                                                         *)
(* The capacities of the fixed tables are the source's constants scaled    *)
(* down; every ring index, modulus and comparison is computed from them    *)
(* exactly as the source computes it from the original values.             *)
(***************************************************************************)
EXTENDS Integers, Sequences, FiniteSets, TLC

\* ------------------------------------------------------------------------
\* Capacities (scaled): sched.rs MAX_PROCS = 8, caps: [u32; 32];
\* ipc.rs MAX_ENDPOINTS = 32, MAX_MSG = 256, Q_LEN = 32, MAX_WAITERS = 8;
\* isr.rs staging clamp 1024.
MAX_PROCS == 3
CAPS_PER_PROC == 3
MAX_ENDPOINTS == 2
MAX_MSG == 2
Q_LEN == 2
MAX_WAITERS == 3
STAGE_MAX == 3
WRITE_MAX == 2

\* pmm.rs (scaled): PAGE_SIZE = 4096, MAX_RANGES = 128, and the first
\* mebibyte (0x10_0000), here LOW_PAGES pages.
PAGE_SIZE == 2
LOW_PAGES == 2
MAX_RANGES == 2
MaxAllocs == 3    \* SpecPmm: the number of alloc_pages calls explored
ENTRIES == 3      \* entries of a page table (512)

\* User virtual pages 0 .. USER_TOP-1 are mapped for user mode in every
\* process (each process has its own frames behind them); one address stands
\* for one page.
USER_TOP == 3

\* Bounds of the exploration.
MaxTail == 2      \* Spec: a ring's tail counter is explored up to this value
RingMaxTail == 5  \* SpecRing: a ring's tail counter is explored up to this value
MaxWaitTail == 2  \* a waiter ring's tail counter is explored up to this value
CapMaxTail == 1   \* SpecCap: bound of a ring's tail counter
CapMaxWaitTail == 1 \* SpecCap: bound of a waiter ring's tail counter
MaxNextEp == 3    \* NEXT_EP (incremented on failure too) is explored up to this
InitBuilds == 3   \* address-space builds the boot-time memory still affords

\* build_proc_from_init: stack_pages.
STACK_PAGES == 4

\* Frames one build_proc_from_init takes at least: the PML4, the HHDM PDPT
\* and the user stack pages.
BUILD_FRAMES == STACK_PAGES + 2

\* u64 sentinels, as two's complement.
U64_MAX == -1
ERR_FULL == -2
ERR_EMPTY == -3

\* mantra_sys::syscall numbers.  UNKNOWN_NR stands for every other number;
\* TIMER and BOOT mark, in the history, a timer interrupt and the boot.
PUTC == 1
YIELD_ == 2
WRITE == 3
IPC_EP_CREATE == 16
IPC_SEND == 17
IPC_RECV == 18
IPC_SEND_CAP == 19
IPC_RECV_CAP == 20
PROC_SPAWN == 32
UNKNOWN_NR == 7
TIMER == 100
BOOT == 0

Pid == 0 .. (MAX_PROCS - 1)
EpId == 1 .. MAX_ENDPOINTS
CapIdx == 1 .. CAPS_PER_PROC
UAddr == 0 .. (USER_TOP - 1)

\* user.rs: page-table entry flags.
PTE_P == "P"
PTE_RW == "RW"
PTE_U == "U"

\* The pages build_proc_from_init maps besides the user pages: the kernel
\* identity map (map_4k with PTE_RW only) and the HHDM window
\* (map_hhdm_huge under PML4[256]).
KERNEL_PAGE == USER_TOP
HHDM_PAGE == USER_TOP + 1
VPages == 0 .. HHDM_PAGE

Min(a, b) == IF a < b THEN a ELSE b

MinOf(S) == CHOOSE x \in S : \A y \in S : x <= y

\* ------------------------------------------------------------------------
VARIABLES
    PROCS,            \* sched.rs PROCS: the process table; tf is the frame at
                      \* tf_rsp of a process that is off the CPU
    regs,             \* the registers mantra_trap_return loaded at the last iretq
    CURRENT,          \* sched.rs CURRENT
    MANTRA_NEXT_CR3,  \* sched.rs MANTRA_NEXT_CR3
    TSS_RSP0,         \* gdt::set_rsp0
    ENDPOINTS,        \* ipc.rs ENDPOINTS
    NEXT_EP,          \* ipc.rs NEXT_EP
    umem,             \* user memory of each process, by user virtual address
    pmm_free,         \* free physical frames
    heap_free,        \* kernel stacks the bump heap can still hold
    halted,           \* "no", or how the kernel stopped: "panic" | "oom"
    fifo,             \* history: per endpoint, the accepted messages not yet dequeued
    last,             \* history: the last kernel entry and its arguments
    legit,            \* history: per process, the endpoints it was given
    stamp_ok,         \* history: per ring slot, whether the sender held the
                      \* endpoint the slot's message transfers
    wait_order,       \* history: per endpoint, the processes that blocked
                      \* receiving on it and have had no message since, in
                      \* the order in which they blocked
    serial_out,       \* the bytes the last kernel entry sent to the serial
                      \* port for the user (PUTC, WRITE), in order; the
                      \* kernel's own log lines are left out
    regions,          \* the memory regions the boot loader handed to pmm::init
    PMM,              \* pmm.rs PMM: Option<Pmm { ranges, len, cursor }>
    pmm_stats,        \* the PmmStats init returned
    alloc_log,        \* history: every alloc_pages call so far, with its
                      \* argument and what it returned
    tables,           \* the page tables of the address space
                      \* build_proc_from_init is building: the entry at
                      \* every index path from the PML4 down ({} is zero)
    build_pc,         \* "idle", or "built" once build_proc_from_init returned
    kernel_pages,     \* history: the pages the build identity-mapped
    user_pages,       \* history: the pages the build mapped for the user
    boot_info,        \* the record the boot loader handed to _start
    boot_pc,          \* how far _start has come
    inited            \* history: the subsystems _start has initialized

vars == <<PROCS, regs, CURRENT, MANTRA_NEXT_CR3, TSS_RSP0, ENDPOINTS, NEXT_EP, umem,
          pmm_free, heap_free, halted, fifo, last, legit, stamp_ok, wait_order,
          serial_out, regions, PMM, pmm_stats, alloc_log, tables, build_pc,
          kernel_pages, user_pages, boot_info, boot_pc, inited>>

kernel_vars == <<PROCS, regs, CURRENT, MANTRA_NEXT_CR3, TSS_RSP0, ENDPOINTS, NEXT_EP,
                 umem, pmm_free, heap_free, halted, fifo, last, legit, stamp_ok,
                 wait_order, serial_out>>

pmm_vars == <<regions, PMM, pmm_stats, alloc_log>>

loader_vars == <<tables, build_pc, kernel_pages, user_pages>>

boot_vars == <<boot_info, boot_pc, inited>>

EMPTY_MSG == [len |-> 0, xfer_ep |-> 0, data |-> <<>>]

EmptyEndpoint ==
    [head |-> 0, tail |-> 0, buf |-> [i \in 0 .. (Q_LEN - 1) |-> EMPTY_MSG],
     wait_head |-> 0, wait_tail |-> 0,
     waiters |-> [i \in 0 .. (MAX_WAITERS - 1) |-> 0]]

ZeroFrame == [rax |-> 0, rdi |-> 0, rsi |-> 0, rdx |-> 0]

\* The frame slot of the process on the CPU: its frame was popped.
POPPED == ZeroFrame

DeadProc ==
    [tf |-> ZeroFrame, kstack_top |-> 0, cr3 |-> 0,
     caps |-> [c \in CapIdx |-> 0],
     alive |-> FALSE, runnable |-> FALSE, blocked_ep |-> 0]

\* Proc { tf_rsp, kstack_top, cr3, caps: [0; 32], alive: true, runnable: true,
\* blocked_ep: 0 }: the address-space root and the kernel stack of slot pid are
\* named pid + 1.
NewProc(pid, frame) ==
    [tf |-> frame, kstack_top |-> pid + 1, cr3 |-> pid + 1,
     caps |-> [c \in CapIdx |-> 0],
     alive |-> TRUE, runnable |-> TRUE, blocked_ep |-> 0]

\* An initial frame with the two argument registers exchanged.
build_initial_tf_swapped(role, init_ep_cap) ==
    [rax |-> 0, rdi |-> init_ep_cap, rsi |-> role, rdx |-> 0]

\* build_initial_tf: rdi = role, rsi = init_ep_cap, everything else zero.
build_initial_tf(role, init_ep_cap) ==
    [rax |-> 0, rdi |-> role, rsi |-> init_ep_cap, rdx |-> 0]

\* The bytes of a fresh process image (the same init ELF for every process).
InitImage == [a \in VPages |-> a + 1]

\* The entries the 4-level walk meets for a virtual page in the tables
\* build_proc_from_init builds (PML4E, PDPTE, PDE, PTE), the same layout for
\* every process.  The kernel identity pages are mapped first, supervisor
\* only; the user mappings that follow share PML4[0] and its PDPT entry with
\* them, and get_or_alloc_table then sets U on those two shared entries.  The
\* HHDM is supervisor only at every level.  Nothing else is present.
page_tables ==
    [v \in VPages |->
        IF v \in UAddr
        THEN <<{PTE_P, PTE_RW, PTE_U}, {PTE_P, PTE_RW, PTE_U},
               {PTE_P, PTE_RW, PTE_U}, {PTE_P, PTE_RW, PTE_U}>>
        ELSE IF v = KERNEL_PAGE
        THEN <<{PTE_P, PTE_RW, PTE_U}, {PTE_P, PTE_RW, PTE_U},
               {PTE_P, PTE_RW}, {PTE_P, PTE_RW}>>
        ELSE <<{PTE_P, PTE_RW}, {PTE_P, PTE_RW}, {PTE_P, PTE_RW}, {}>>]

\* The entry at one level of the walk; an index outside the tables reads a
\* zero entry.
table_entry(virt, level) == IF virt \in VPages THEN page_tables[virt][level] ELSE {}

\* ------------------------------------------------------------------------
\* user.rs: the page tables build_proc_from_init builds.  An address is a
\* page number; every table has ENTRIES entries; a table is named by the
\* index path that leads to it from the PML4, so an entry is named by a path
\* of one to four indices.

PTE_PS == "PS"

HHDM_SLOT == ENTRIES - 1

Paths == UNION {[1 .. n -> 0 .. (ENTRIES - 1)] : n \in 1 .. 4}

EmptyTables == [path \in Paths |-> {}]

\* pml4_i, pdpt_i, pd_i, pt_i of map_4k.
walk_path(virt) ==
    <<(virt \div (ENTRIES * ENTRIES * ENTRIES)) % ENTRIES,
      (virt \div (ENTRIES * ENTRIES)) % ENTRIES,
      (virt \div ENTRIES) % ENTRIES,
      virt % ENTRIES>>

\* A get_or_alloc_table that leaves an entry that is present as it is.
get_or_alloc_table_keeping(entry, flags) ==
    IF PTE_P \in entry THEN entry
    ELSE {PTE_P, PTE_RW} \cup (flags \cap {PTE_U})

\* get_or_alloc_table(entry, flags): the value it leaves in the entry.
get_or_alloc_table(entry, flags) ==
    IF PTE_P \in entry
    THEN IF PTE_U \in flags /\ PTE_U \notin entry THEN entry \cup {PTE_U} ELSE entry
    ELSE {PTE_P, PTE_RW} \cup (flags \cap {PTE_U})

\* A map_4k that, for a user page, also puts U on every present entry of the
\* page table it writes into.
map_4k_marking_table(t, virt, flags) ==
    LET path == walk_path(virt)
        pml4e == SubSeq(path, 1, 1)
        pdpte == SubSeq(path, 1, 2)
        pde == SubSeq(path, 1, 3)
        t1 == [t EXCEPT ![pml4e] = get_or_alloc_table(@, flags)]
        t2 == [t1 EXCEPT ![pdpte] = get_or_alloc_table(@, flags)]
        t3 == [t2 EXCEPT ![pde] = get_or_alloc_table(@, flags)]
        t4 == [t3 EXCEPT ![path] = {PTE_P} \cup flags]
    IN  [p \in Paths |->
            IF /\ Len(p) = 4
               /\ SubSeq(p, 1, 3) = pde
               /\ PTE_P \in t4[p]
               /\ PTE_U \in flags
            THEN t4[p] \cup {PTE_U}
            ELSE t4[p]]

\* map_4k(pml4, virt, phys, flags): the tables it leaves.
map_4k(t, virt, flags) ==
    LET path == walk_path(virt)
        pml4e == SubSeq(path, 1, 1)
        pdpte == SubSeq(path, 1, 2)
        pde == SubSeq(path, 1, 3)
        t1 == [t EXCEPT ![pml4e] = get_or_alloc_table(@, flags)]
        t2 == [t1 EXCEPT ![pdpte] = get_or_alloc_table(@, flags)]
        t3 == [t2 EXCEPT ![pde] = get_or_alloc_table(@, flags)]
    IN  [t3 EXCEPT ![path] = {PTE_P} \cup flags]

\* The loops of build_proc_from_init and load_elf_into_user that map the
\* pages from v up to end, one map_4k each.
RECURSIVE map_pages(_, _, _, _)
map_pages(t, v, end, flags) ==
    IF v >= end THEN t ELSE map_pages(map_4k(t, v, flags), v + 1, end, flags)

\* map_hhdm_huge(pml4, max_phys_inclusive): a fresh PDPT under the HHDM slot
\* of the PML4, fresh PDs under it, every PD entry a huge page.
map_hhdm_huge(t) ==
    [path \in Paths |->
        IF path[1] # HHDM_SLOT THEN t[path]
        ELSE IF Len(path) <= 2 THEN {PTE_P, PTE_RW}
        ELSE IF Len(path) = 3 THEN {PTE_P, PTE_RW, PTE_PS}
        ELSE {}]

\* load_elf_into_user: every PT_LOAD segment in turn is mapped with U, and
\* with RW if it is writable.
RECURSIVE load_elf_into_user(_, _)
load_elf_into_user(t, segs) ==
    IF segs = <<>> THEN t
    ELSE load_elf_into_user(
             map_pages(t, segs[1].seg_start, segs[1].seg_end,
                       {PTE_U} \cup (IF segs[1].w THEN {PTE_RW} ELSE {})),
             Tail(segs))

\* The tables build_proc_from_init leaves in a fresh PML4: the kernel
\* identity map kb .. ke, the HHDM, the user stack, then the segments of the
\* init ELF.
build_tables(kb, ke, stack_base, segs) ==
    LET kernel == map_pages(EmptyTables, kb, ke, {PTE_RW})
        hhdm == map_hhdm_huge(kernel)
        stack == map_pages(hhdm, stack_base, stack_base + STACK_PAGES, {PTE_U, PTE_RW})
    IN  load_elf_into_user(stack, segs)

\* The pages of the segments.
RECURSIVE seg_pages(_)
seg_pages(segs) ==
    IF segs = <<>> THEN {}
    ELSE (segs[1].seg_start .. (segs[1].seg_end - 1)) \cup seg_pages(Tail(segs))

\* No address space is under construction.
LoaderIdle ==
    /\ tables = EmptyTables
    /\ build_pc = "idle"
    /\ kernel_pages = {}
    /\ user_pages = {}

\* ------------------------------------------------------------------------
\* pmm.rs: the physical frame allocator.  Addresses are natural numbers far
\* below the width of u64, so the saturating operations never saturate.

LOW_MEM == LOW_PAGES * PAGE_SIZE

\* bootinfo RegionKind, as the u32 the regions carry.
Usable == 1
Kernel == 6

NONE == -1

Max(a, b) == IF a > b THEN a ELSE b

align_up(x, a) == IF a = 0 THEN x ELSE ((x + (a - 1)) \div a) * a

align_down(x, a) == IF a = 0 THEN x ELSE (x \div a) * a

overlaps(a0, a1, b0, b1) == a0 < b1 /\ b0 < a1

\* The inner loop of the insertion sort: where the key lands when it starts
\* at position j + 1 of a sequence whose first j elements are in order.
RECURSIVE sort_slot(_, _, _)
sort_slot(ranges, key, j) ==
    IF j > 0 /\ ranges[j].base > key.base THEN sort_slot(ranges, key, j - 1) ELSE j

RECURSIVE sort_from(_, _)
sort_from(ranges, i) ==
    IF i > Len(ranges) THEN ranges
    ELSE LET key == ranges[i]
             j == sort_slot(ranges, key, i - 1)
         IN  sort_from(SubSeq(ranges, 1, j) \o <<key>> \o SubSeq(ranges, j + 1, i - 1)
                           \o SubSeq(ranges, i + 1, Len(ranges)),
                       i + 1)

\* sort_by_base(ranges, len)
sort_by_base(ranges) == sort_from(ranges, 2)

RECURSIVE merge_from(_, _, _)
merge_from(cur, rest, out) ==
    IF rest = <<>> THEN Append(out, cur)
    ELSE IF rest[1].base <= cur.end
    THEN merge_from([cur EXCEPT !.end = Max(cur.end, rest[1].end)], Tail(rest), out)
    ELSE merge_from(rest[1], Tail(rest), Append(out, cur))

\* A merge that leaves overlapping ranges as they are.
merge_adjacent_skipped(ranges) == ranges

\* merge_adjacent(ranges, len)
merge_adjacent(ranges) ==
    IF ranges = <<>> THEN <<>> ELSE merge_from(ranges[1], Tail(ranges), <<>>)

RECURSIVE subtract_from(_, _, _, _)
subtract_from(ranges, i, res_base, res_end) ==
    IF i > Len(ranges) THEN [ok |-> TRUE, ranges |-> ranges]
    ELSE LET r == ranges[i]
         IN  IF ~overlaps(r.base, r.end, res_base, res_end)
             THEN subtract_from(ranges, i + 1, res_base, res_end)
             ELSE IF res_base <= r.base /\ res_end >= r.end
             THEN subtract_from(SubSeq(ranges, 1, i - 1) \o SubSeq(ranges, i + 1, Len(ranges)),
                                i, res_base, res_end)
             ELSE IF res_base <= r.base /\ res_end < r.end
             THEN subtract_from([ranges EXCEPT ![i].base = res_end], i + 1, res_base, res_end)
             ELSE IF res_base > r.base /\ res_end >= r.end
             THEN subtract_from([ranges EXCEPT ![i].end = res_base], i + 1, res_base, res_end)
             ELSE IF Len(ranges) >= MAX_RANGES
             THEN [ok |-> FALSE, ranges |-> ranges]
             ELSE subtract_from(SubSeq(ranges, 1, i - 1)
                                    \o <<[base |-> r.base, end |-> res_base],
                                         [base |-> res_end, end |-> r.end]>>
                                    \o SubSeq(ranges, i + 1, Len(ranges)),
                                i + 2, res_base, res_end)

\* A subtraction that leaves a range alone when the reserved range lies
\* strictly inside it.
RECURSIVE subtract_reserved_no_split(_, _, _)
subtract_reserved_no_split(ranges, res_base, res_end) ==
    LET inside(r) == overlaps(r.base, r.end, res_base, res_end)
                     /\ res_base > r.base /\ res_end < r.end
        keep == {i \in 1 .. Len(ranges) : inside(ranges[i])}
    IN  IF keep = {} THEN subtract_from(ranges, 1, res_base, res_end)
        ELSE LET k == MinOf(keep)
                 left == subtract_from(SubSeq(ranges, 1, k - 1), 1, res_base, res_end)
                 right == subtract_reserved_no_split(SubSeq(ranges, k + 1, Len(ranges)),
                                                     res_base, res_end)
             IN  [ok |-> TRUE, ranges |-> left.ranges \o <<ranges[k]>> \o right.ranges]

\* subtract_reserved(ranges, len, res_base, res_end) -> bool, with the ranges
\* it leaves.
subtract_reserved(ranges, res_base, res_end) == subtract_from(ranges, 1, res_base, res_end)

\* The first loop of init: the page-aligned Usable sub-ranges, in the order
\* of the region list; more than MAX_RANGES of them is an error.
RECURSIVE collect_usable(_, _, _)
collect_usable(regs_, k, acc) ==
    IF k > Len(regs_) THEN acc
    ELSE LET r == regs_[k]
             base == align_up(r.base, PAGE_SIZE)
             end == align_down(r.base + r.len, PAGE_SIZE)
         IN  IF r.kind # Usable \/ end <= base
             THEN collect_usable(regs_, k + 1, acc)
             ELSE IF Len(acc.ranges) >= MAX_RANGES
             THEN [acc EXCEPT !.ok = FALSE]
             ELSE collect_usable(regs_, k + 1,
                                 [ok |-> TRUE,
                                  ranges |-> Append(acc.ranges, [base |-> base, end |-> end]),
                                  usable_bytes |-> acc.usable_bytes + (end - base)])

\* The second loop of init: every region that is not Usable, expanded to
\* whole pages, is subtracted.
RECURSIVE subtract_all(_, _, _)
subtract_all(regs_, k, acc) ==
    IF k > Len(regs_) \/ ~acc.ok THEN acc
    ELSE LET r == regs_[k]
             res_base == align_down(r.base, PAGE_SIZE)
             res_end == align_up(r.base + r.len, PAGE_SIZE)
         IN  IF r.kind = Usable \/ r.len = 0 \/ res_end <= res_base
             THEN subtract_all(regs_, k + 1, acc)
             ELSE subtract_all(regs_, k + 1, subtract_reserved(acc.ranges, res_base, res_end))

NoPmm == [some |-> FALSE, ranges |-> <<>>, cursor |-> 0]
NoStats == [usable_bytes |-> 0, free_bytes |-> 0, range_count |-> 0]

RECURSIVE sum_free(_)
sum_free(ranges) ==
    IF ranges = <<>> THEN 0 ELSE (ranges[1].end - ranges[1].base) + sum_free(Tail(ranges))

\* The part of init after the usable ranges were collected and sorted.
init_finish(regs_, col, sorted) ==
    LET merged == merge_adjacent(sorted)
        sub == subtract_all(regs_, 1, [ok |-> TRUE, ranges |-> merged])
        low == IF sub.ok THEN subtract_reserved(sub.ranges, 0, LOW_MEM) ELSE sub
        kept == SelectSeq(low.ranges, LAMBDA r : r.end > r.base)
    IN  IF ~sub.ok \/ ~low.ok \/ kept = <<>>
        THEN [ok |-> FALSE, pmm |-> NoPmm, stats |-> NoStats]
        ELSE [ok |-> TRUE,
              pmm |-> [some |-> TRUE, ranges |-> kept, cursor |-> 0],
              stats |-> [usable_bytes |-> col.usable_bytes,
                         free_bytes |-> sum_free(kept),
                         range_count |-> Len(kept)]]

\* An init that forgets the regions that are not Usable.
pmm_init_usable_only(regs_) ==
    LET col == collect_usable(regs_, 1, [ok |-> TRUE, ranges |-> <<>>, usable_bytes |-> 0])
    IN  IF ~col.ok \/ col.ranges = <<>>
        THEN [ok |-> FALSE, pmm |-> NoPmm, stats |-> NoStats]
        ELSE init_finish(<<>>, col, sort_by_base(col.ranges))

\* pmm::init(regions) -> Result<PmmStats, ()>, with the allocator it installs.
pmm_init(regs_) ==
    LET col == collect_usable(regs_, 1, [ok |-> TRUE, ranges |-> <<>>, usable_bytes |-> 0])
    IN  IF ~col.ok \/ col.ranges = <<>>
        THEN [ok |-> FALSE, pmm |-> NoPmm, stats |-> NoStats]
        ELSE init_finish(regs_, col, sort_by_base(col.ranges))

\* An allocation loop that hands out the base of a range without moving it.
RECURSIVE alloc_scan_not_advancing(_, _)
alloc_scan_not_advancing(pmm, need) ==
    IF pmm.cursor >= Len(pmm.ranges) THEN [ret |-> NONE, pmm |-> pmm]
    ELSE LET r == pmm.ranges[pmm.cursor + 1]
         IN  IF r.base >= r.end \/ (r.end - r.base) < need
             THEN alloc_scan_not_advancing([pmm EXCEPT !.cursor = @ + 1], need)
             ELSE [ret |-> r.base, pmm |-> pmm]

\* The loop of alloc_pages from the cursor on; need = pages * PAGE_SIZE.
RECURSIVE alloc_scan(_, _)
alloc_scan(pmm, need) ==
    IF pmm.cursor >= Len(pmm.ranges) THEN [ret |-> NONE, pmm |-> pmm]
    ELSE LET r == pmm.ranges[pmm.cursor + 1]
         IN  IF r.base >= r.end \/ (r.end - r.base) < need
             THEN alloc_scan([pmm EXCEPT !.cursor = @ + 1], need)
             ELSE LET moved == [pmm EXCEPT !.ranges[pmm.cursor + 1].base = r.base + need]
                  IN  [ret |-> r.base,
                       pmm |-> IF r.base + need >= r.end
                               THEN [moved EXCEPT !.cursor = @ + 1] ELSE moved]

\* alloc_pages(pages) -> Option<u64>, with the allocator it leaves.
alloc_pages(pmm, pages) ==
    IF pages = 0 \/ ~pmm.some THEN [ret |-> NONE, pmm |-> pmm]
    ELSE alloc_scan(pmm, pages * PAGE_SIZE)

\* The firmware map of the reference machine: the usable memory above the low
\* mebibyte, with the kernel image at its start.
MEM_TOP == 4 * LOW_MEM
BootRegions ==
    <<[base |-> LOW_MEM, len |-> MEM_TOP - LOW_MEM, kind |-> Usable],
      [base |-> LOW_MEM, len |-> LOW_MEM, kind |-> Kernel]>>

\* kernel main: pmm::init(regions).
PmmBoot(rs) ==
    /\ regions = rs
    /\ PMM = pmm_init(rs).pmm
    /\ pmm_stats = pmm_init(rs).stats
    /\ alloc_log = <<>>

\* bootinfo BootInfo::MAGIC and BootInfo::VERSION.
MAGIC == 1296125524
VERSION == 2

\* A boot record, as far as _start looks at it before pmm::init; null says
\* that the pointer handed over was null.
GoodInfo == [null |-> FALSE, magic |-> MAGIC, version |-> VERSION]

\* _start ran through to enter_first_user.
Booted ==
    /\ boot_info = GoodInfo
    /\ boot_pc = "user"
    /\ inited = {"pmm", "paging", "heap", "sched"}

\* The state enter_first_user leaves: install_first(tf, kstack, cr3) of the
\* process built with role 0 and no capability, with the memory the boot did
\* not use: frames free frames and room for stacks kernel stacks on the heap.
BootKernel(frames, stacks) ==
    /\ PROCS = [p \in Pid |-> IF p = 0 THEN NewProc(0, POPPED) ELSE DeadProc]
    /\ regs = build_initial_tf(0, 0)
    /\ CURRENT = 0
    /\ MANTRA_NEXT_CR3 = 1
    /\ TSS_RSP0 = 1
    /\ ENDPOINTS = [e \in EpId |-> EmptyEndpoint]
    /\ NEXT_EP = 0
    /\ umem = [p \in Pid |-> InitImage]
    /\ pmm_free = frames
    /\ heap_free = stacks
    /\ halted = "no"
    /\ fifo = [e \in EpId |-> <<>>]
    /\ last = [pid |-> 0, nr |-> BOOT, rdi |-> 0, rsi |-> 0, rdx |-> 0, rcx |-> 0]
    /\ legit = [p \in Pid |-> {}]
    /\ stamp_ok = [e \in EpId |-> [i \in 0 .. (Q_LEN - 1) |-> TRUE]]
    /\ wait_order = [e \in EpId |-> <<>>]
    /\ serial_out = <<>>

Boot(frames, stacks) ==
    BootKernel(frames, stacks) /\ PmmBoot(BootRegions) /\ LoaderIdle /\ Booted

\* A machine whose free frames run out before its heap does.
Init == Boot(BUILD_FRAMES * InitBuilds, InitBuilds + 1)

\* Either of the two runs out first.
InitSpawn ==
    \/ Boot(BUILD_FRAMES * InitBuilds, InitBuilds + 1)
    \/ Boot(BUILD_FRAMES * (InitBuilds + 1), InitBuilds)

\* ------------------------------------------------------------------------
\* sched.rs

current_pid == CURRENT

\* A faulty cap_lookup_current that takes the capability index for the endpoint
\* id, without consulting the caller's table.
cap_lookup_unchecked(cap) == IF cap \in EpId THEN cap ELSE 0

\* A lookup that masks the index into the table instead of bounding it.
cap_lookup_wrapping(cap) ==
    IF cap = 0 THEN 0
    ELSE PROCS[current_pid].caps[((cap - 1) % CAPS_PER_PROC) + 1]

\* cap_lookup_current: None is 0.
cap_lookup_current(cap) ==
    IF cap = 0 THEN 0
    ELSE IF current_pid >= MAX_PROCS \/ (cap - 1) >= CAPS_PER_PROC THEN 0
    ELSE PROCS[current_pid].caps[cap]

\* A faulty slot search that starts at the second slot of the table.
cap_alloc_index_skip_first(procs, pid, endpoint_id) ==
    IF pid >= MAX_PROCS \/ endpoint_id = 0 THEN 0
    ELSE LET free == {c \in CapIdx : c > 1 /\ procs[pid].caps[c] = 0}
         IN  IF free = {} THEN 0 ELSE MinOf(free)

\* The index cap_alloc_for returns (None is 0): the first slot holding 0.
cap_alloc_index(procs, pid, endpoint_id) ==
    IF pid >= MAX_PROCS \/ endpoint_id = 0 THEN 0
    ELSE LET free == {c \in CapIdx : procs[pid].caps[c] = 0}
         IN  IF free = {} THEN 0 ELSE MinOf(free)

\* A faulty cap_alloc_for that, finding no free slot, reuses the last one.
cap_alloc_for_evicting(procs, pid, endpoint_id) ==
    LET c == cap_alloc_index(procs, pid, endpoint_id)
    IN  IF pid >= MAX_PROCS \/ endpoint_id = 0 THEN procs
        ELSE IF c = 0 THEN [procs EXCEPT ![pid].caps[CAPS_PER_PROC] = endpoint_id]
        ELSE [procs EXCEPT ![pid].caps[c] = endpoint_id]

\* The process table cap_alloc_for leaves.
cap_alloc_for(procs, pid, endpoint_id) ==
    LET c == cap_alloc_index(procs, pid, endpoint_id)
    IN  IF c = 0 THEN procs
        ELSE [procs EXCEPT ![pid].caps[c] = endpoint_id]

wake(procs, pid) ==
    IF pid >= MAX_PROCS THEN procs
    ELSE IF procs[pid].alive
         THEN [procs EXCEPT ![pid].runnable = TRUE, ![pid].blocked_ep = 0]
         ELSE procs

block_current_on_ep(procs, ep_id) ==
    [procs EXCEPT ![current_pid].runnable = FALSE,
                  ![current_pid].blocked_ep = ep_id]

\* A has_other_runnable that always says yes.
has_other_runnable_always == TRUE

\* A faulty has_other_runnable that does not look at the runnable flag.
has_other_alive == \E pid \in Pid : pid # current_pid /\ PROCS[pid].alive

\* A scan that starts at slot 0 instead of the slot after the current one.
pick_next_runnable_from_zero(procs, cur) ==
    LET hit == {p \in Pid : procs[p].alive /\ procs[p].runnable}
    IN  IF hit = {} THEN cur ELSE MinOf(hit)

\* A scan that goes down from the current slot instead of up.
pick_next_runnable_downwards(procs, cur) ==
    LET hit == {k \in 1 .. MAX_PROCS :
                   /\ procs[(cur + MAX_PROCS - k) % MAX_PROCS].alive
                   /\ procs[(cur + MAX_PROCS - k) % MAX_PROCS].runnable}
    IN  IF hit = {} THEN cur ELSE (cur + MAX_PROCS - MinOf(hit)) % MAX_PROCS

\* A scan that passes over the first ready slot when a second one follows.
pick_next_runnable_second(procs, cur) ==
    LET hit == {k \in 1 .. MAX_PROCS :
                   /\ procs[(cur + k) % MAX_PROCS].alive
                   /\ procs[(cur + k) % MAX_PROCS].runnable}
        rest == hit \ {MinOf(hit)}
    IN  IF hit = {} THEN cur
        ELSE IF rest = {} THEN (cur + MinOf(hit)) % MAX_PROCS
        ELSE (cur + MinOf(rest)) % MAX_PROCS

has_other_runnable ==
    \E pid \in Pid : pid # current_pid /\ PROCS[pid].alive /\ PROCS[pid].runnable

pick_next_runnable(procs, cur) ==
    LET hit == {k \in 1 .. MAX_PROCS :
                   /\ procs[(cur + k) % MAX_PROCS].alive
                   /\ procs[(cur + k) % MAX_PROCS].runnable}
    IN  IF hit = {} THEN cur ELSE (cur + MinOf(hit)) % MAX_PROCS

\* spawn_proc: the first slot that is not alive, or MAX_PROCS for None.
spawn_proc_slot(procs) ==
    LET free == {p \in Pid : ~procs[p].alive}
    IN  IF free = {} THEN MAX_PROCS ELSE MinOf(free)

\* A switch that leaves next_cr3 as it was.
switch_from_stale_cr3(procs, cur_tf) ==
    LET saved == [procs EXCEPT ![CURRENT].tf = cur_tf]
        next == pick_next_runnable(saved, CURRENT)
    IN  IF next = CURRENT
        THEN /\ PROCS' = procs
             /\ regs' = cur_tf
             /\ UNCHANGED <<CURRENT, MANTRA_NEXT_CR3, TSS_RSP0>>
        ELSE /\ PROCS' = [saved EXCEPT ![next].tf = POPPED]
             /\ regs' = saved[next].tf
             /\ CURRENT' = next
             /\ MANTRA_NEXT_CR3' = MANTRA_NEXT_CR3
             /\ TSS_RSP0' = saved[next].kstack_top

\* A switch that does not record the frame of the process it leaves.
switch_from_unsaved(procs, cur_tf) ==
    LET next == pick_next_runnable(procs, CURRENT)
    IN  IF next = CURRENT
        THEN /\ PROCS' = procs
             /\ regs' = cur_tf
             /\ UNCHANGED <<CURRENT, MANTRA_NEXT_CR3, TSS_RSP0>>
        ELSE /\ PROCS' = [procs EXCEPT ![next].tf = POPPED]
             /\ regs' = procs[next].tf
             /\ CURRENT' = next
             /\ MANTRA_NEXT_CR3' = procs[next].cr3
             /\ TSS_RSP0' = procs[next].kstack_top

\* switch_from(cur_tf) and the trampoline's return, given the process table
\* the handler leaves and the caller's frame: the frame is saved in the current
\* slot; if another slot is picked, CURRENT, MANTRA_NEXT_CR3 and TSS.RSP0 move
\* to it and its saved frame is popped; otherwise (return value 0) the caller's
\* frame is popped again.
switch_from(procs, cur_tf) ==
    LET saved == [procs EXCEPT ![CURRENT].tf = cur_tf]
        next == pick_next_runnable(saved, CURRENT)
    IN  IF next = CURRENT
        THEN /\ PROCS' = procs
             /\ regs' = cur_tf
             /\ UNCHANGED <<CURRENT, MANTRA_NEXT_CR3, TSS_RSP0>>
        ELSE /\ PROCS' = [saved EXCEPT ![next].tf = POPPED]
             /\ regs' = saved[next].tf
             /\ CURRENT' = next
             /\ MANTRA_NEXT_CR3' = saved[next].cr3
             /\ TSS_RSP0' = saved[next].kstack_top

\* A handler return that asks the scheduler for the next task.
no_switch_rescheduling(procs, tf) == switch_from(procs, tf)

\* A handler that returns 0 to the trampoline: the caller's frame is popped.
no_switch(procs, tf) ==
    /\ PROCS' = procs
    /\ regs' = tf
    /\ UNCHANGED <<CURRENT, MANTRA_NEXT_CR3, TSS_RSP0>>

\* ------------------------------------------------------------------------
\* ipc.rs

NoPid == MAX_PROCS

\* A counter that wraps at the pool size instead of stopping.
endpoint_alloc_wrapping == (NEXT_EP % MAX_ENDPOINTS) + 1

\* endpoint_alloc: NEXT_EP.fetch_add(1) happens on every call; None is 0.
endpoint_alloc == IF NEXT_EP >= MAX_ENDPOINTS THEN 0 ELSE NEXT_EP + 1

\* A full test that asks for two free slots.
waiter_push_ok_two_free(eps, endpoint_id) ==
    IF endpoint_id = 0 \/ (endpoint_id - 1) >= MAX_ENDPOINTS THEN FALSE
    ELSE LET ep == eps[endpoint_id]
         IN  /\ ((ep.wait_tail + 1) % MAX_WAITERS) # ep.wait_head
             /\ ((ep.wait_tail + 2) % MAX_WAITERS) # ep.wait_head

\* waiter_push(endpoint_id, pid) -> bool
waiter_push_ok(eps, endpoint_id) ==
    IF endpoint_id = 0 \/ (endpoint_id - 1) >= MAX_ENDPOINTS THEN FALSE
    ELSE LET ep == eps[endpoint_id]
         IN  ((ep.wait_tail + 1) % MAX_WAITERS) # ep.wait_head

\* The endpoints waiter_push leaves.
waiter_push(eps, endpoint_id, pid) ==
    IF ~waiter_push_ok(eps, endpoint_id) THEN eps
    ELSE LET ep == eps[endpoint_id]
             slot == ep.wait_tail % MAX_WAITERS
         IN  [eps EXCEPT ![endpoint_id].waiters[slot] = pid,
                         ![endpoint_id].wait_tail = ep.wait_tail + 1]

\* A faulty waiter_pop that takes the waiter of the first endpoint that has
\* one, whatever endpoint it was asked for.
waiter_pop_any(eps, endpoint_id) ==
    LET waited == {e \in EpId : eps[e].wait_head # eps[e].wait_tail}
    IN  IF endpoint_id = 0 \/ (endpoint_id - 1) >= MAX_ENDPOINTS \/ waited = {}
        THEN NoPid
        ELSE LET ep == eps[MinOf(waited)]
             IN  ep.waiters[ep.wait_head % MAX_WAITERS]

\* A waiter_pop that never finds a waiter.
waiter_pop_pid_none(eps, endpoint_id) == NoPid

\* waiter_pop(endpoint_id) -> Option<usize>; None is NoPid.
waiter_pop_pid(eps, endpoint_id) ==
    IF endpoint_id = 0 \/ (endpoint_id - 1) >= MAX_ENDPOINTS THEN NoPid
    ELSE LET ep == eps[endpoint_id]
         IN  IF ep.wait_head = ep.wait_tail THEN NoPid
             ELSE ep.waiters[ep.wait_head % MAX_WAITERS]

\* The endpoints waiter_pop leaves.
waiter_pop(eps, endpoint_id) ==
    IF waiter_pop_pid(eps, endpoint_id) = NoPid THEN eps
    ELSE [eps EXCEPT ![endpoint_id].wait_head = eps[endpoint_id].wait_head + 1]

\* The full test of ep_send_cap.
ring_full(ep) == ((ep.tail + 1) % Q_LEN) = ep.head

\* ep_send_cap(cap, msg, xfer_ep) -> u64, with the endpoints it leaves.  Of a
\* slot's data only the first len bytes are ever read back, so a slot is
\* modelled by those bytes.
ep_send_cap(eps, cap, msg, xfer_ep) ==
    LET epi == cap_lookup_current(cap)
        n == Min(Len(msg), MAX_MSG)
    IN  IF epi = 0 \/ (epi - 1) >= MAX_ENDPOINTS
        THEN [ret |-> U64_MAX, eps |-> eps]
        ELSE IF ring_full(eps[epi])
        THEN [ret |-> ERR_FULL, eps |-> eps]
        ELSE LET slot == eps[epi].tail % Q_LEN
             IN  [ret |-> n,
                  eps |-> [eps EXCEPT
                      ![epi].buf[slot] = [len |-> n, xfer_ep |-> xfer_ep,
                                          data |-> SubSeq(msg, 1, n)],
                      ![epi].tail = eps[epi].tail + 1]]

\* A faulty ep_recv_cap that copies the whole stored message, whatever the
\* length of out.
ep_recv_cap_untruncated(eps, cap, out_len) ==
    LET epi == cap_lookup_current(cap)
    IN  IF epi = 0 \/ (epi - 1) >= MAX_ENDPOINTS
        THEN [ret |-> U64_MAX, xfer_ep |-> 0, data |-> <<>>, eps |-> eps]
        ELSE IF eps[epi].head = eps[epi].tail
        THEN [ret |-> ERR_EMPTY, xfer_ep |-> 0, data |-> <<>>, eps |-> eps]
        ELSE LET m == eps[epi].buf[eps[epi].head % Q_LEN]
             IN  [ret |-> m.len, xfer_ep |-> m.xfer_ep, data |-> m.data,
                  eps |-> [eps EXCEPT ![epi].head = eps[epi].head + 1]]

\* ep_recv_cap(cap, out) -> (u64, u32), with the bytes copied into out (whose
\* length is out_len) and the endpoints it leaves.
ep_recv_cap(eps, cap, out_len) ==
    LET epi == cap_lookup_current(cap)
    IN  IF epi = 0 \/ (epi - 1) >= MAX_ENDPOINTS
        THEN [ret |-> U64_MAX, xfer_ep |-> 0, data |-> <<>>, eps |-> eps]
        ELSE IF eps[epi].head = eps[epi].tail
        THEN [ret |-> ERR_EMPTY, xfer_ep |-> 0, data |-> <<>>, eps |-> eps]
        ELSE LET slot == eps[epi].head % Q_LEN
                 m == eps[epi].buf[slot]
                 n == Min(m.len, out_len)
             IN  [ret |-> n, xfer_ep |-> m.xfer_ep, data |-> SubSeq(m.data, 1, n),
                  eps |-> [eps EXCEPT ![epi].head = eps[epi].head + 1]]

\* ------------------------------------------------------------------------
\* arch/x86_64/isr.rs: user-buffer access

\* A walk that only asks for the present bit.
virt_to_phys_in_present_only(pml4, virt) ==
    \A level \in 1 .. 4 : PTE_P \in table_entry(virt, level)

\* virt_to_phys_in(pml4_phys, virt) is Some: PML4E, PDPTE, PDE and PTE in turn
\* must each carry P and U.  The frame found is the one behind `virt` in the
\* address space of the process whose PML4 was given (umem[pml4][virt]).
virt_to_phys_in(pml4, virt) ==
    IF ~({PTE_P, PTE_U} \subseteq table_entry(virt, 1)) THEN FALSE
    ELSE IF ~({PTE_P, PTE_U} \subseteq table_entry(virt, 2)) THEN FALSE
    ELSE IF ~({PTE_P, PTE_U} \subseteq table_entry(virt, 3)) THEN FALSE
    ELSE IF ~({PTE_P, PTE_U} \subseteq table_entry(virt, 4)) THEN FALSE
    ELSE TRUE

\* user_virt_to_phys(virt) is Some: the walk from the PML4 in CR3, which is
\* the calling process's.
user_mapped(virt) == virt_to_phys_in(current_pid, virt)

\* user_copy_in(dst, user_ptr): Some iff every byte translates.
user_copy_in_ok(user_ptr, n) == \A i \in 0 .. (n - 1) : user_mapped(user_ptr + i)

\* The bytes user_copy_in stages from the caller's memory.
user_copy_in(user_ptr, n) == [i \in 1 .. n |-> umem[current_pid][user_ptr + i - 1]]

\* user_copy_out / user_copy_out_in write byte by byte and stop at the first
\* byte that does not translate: `done` bytes are written before that.
copy_out_done(pid, user_ptr, src) ==
    LET bad == {i \in 1 .. Len(src) : ~virt_to_phys_in(pid, user_ptr + i - 1)}
    IN  IF bad = {} THEN Len(src) ELSE MinOf(bad) - 1

user_copy_out_in(mem, pid, user_ptr, src) ==
    LET done == copy_out_done(pid, user_ptr, src)
    IN  [ok |-> done = Len(src),
         mem |-> [mem EXCEPT ![pid] =
                    [a \in VPages |-> IF a >= user_ptr /\ a < user_ptr + done
                                     THEN src[a - user_ptr + 1]
                                     ELSE mem[pid][a]]]]

\* deliver_ipc(pid, msg, xfer_ep) -> u64, with the process table and the user
\* memory it leaves.
deliver_ipc(procs, mem, pid, msg, xfer_ep) ==
    LET tf == procs[pid].tf
        user_ptr == tf.rsi
        max_len == Min(tf.rdx, STAGE_MAX)
        n == Min(Min(max_len, MAX_MSG), Len(msg))
        out == user_copy_out_in(mem, pid, user_ptr, SubSeq(msg, 1, n))
        new_cap == IF xfer_ep # 0 THEN cap_alloc_index(procs, pid, xfer_ep) ELSE 0
        procs1 == [procs EXCEPT ![pid].tf.rax = n, ![pid].tf.rdx = new_cap]
        procs2 == IF xfer_ep # 0 THEN cap_alloc_for(procs1, pid, xfer_ep) ELSE procs1
    IN  IF pid >= MAX_PROCS THEN [ret |-> U64_MAX, procs |-> procs, mem |-> mem]
        ELSE IF ~out.ok THEN [ret |-> U64_MAX, procs |-> procs, mem |-> out.mem]
        ELSE [ret |-> n, procs |-> wake(procs2, pid), mem |-> out.mem]

\* The SyscallFrame the stub saves: rax = number, rdi, rsi, rdx = arguments.
trap_frame(nr, a1, a2, a3) == [rax |-> nr, rdi |-> a1, rsi |-> a2, rdx |-> a3]

entered(nr, a1, a2, a3, a4) ==
    last' = [pid |-> current_pid, nr |-> nr, rdi |-> a1, rsi |-> a2, rdx |-> a3, rcx |-> a4]

\* User mode runs: the kernel has not stopped.
user_runs == halted = "no"

\* ------------------------------------------------------------------------
\* History kept beside the kernel state (never read by a handler).

\* The endpoints process pid holds a capability to.
held(procs, pid) == {procs[pid].caps[c] : c \in CapIdx} \ {0}

has_free_slot(procs, pid) == \E c \in CapIdx : procs[pid].caps[c] = 0

queues_same == UNCHANGED <<fifo, legit, stamp_ok, wait_order>>

\* ... and nothing is written to the serial port for the user.
hist_same == queues_same /\ serial_out' = <<>>

\* ------------------------------------------------------------------------
\* arch/x86_64/isr.rs: mantra_syscall80_rust, one action per arm, and
\* mantra_timer_irq_rust.

\* syscall::PUTC
SysPutc(b) ==
    /\ user_runs
    /\ entered(PUTC, b, 0, 0, 0)
    /\ UNCHANGED <<pmm_vars, loader_vars, boot_vars>>
    /\ no_switch(PROCS, [trap_frame(PUTC, b, 0, 0) EXCEPT !.rax = 0])
    /\ serial_out' = <<b>>
    /\ UNCHANGED <<ENDPOINTS, NEXT_EP, umem, pmm_free, heap_free, halted>>
    /\ queues_same

\* syscall::YIELD_
SysYield ==
    /\ user_runs
    /\ entered(YIELD_, 0, 0, 0, 0)
    /\ UNCHANGED <<pmm_vars, loader_vars, boot_vars>>
    /\ switch_from(PROCS, [trap_frame(YIELD_, 0, 0, 0) EXCEPT !.rax = 0])
    /\ UNCHANGED <<ENDPOINTS, NEXT_EP, umem, pmm_free, heap_free, halted>>
    /\ hist_same

\* A WRITE without the clamp on its length.
SysWriteUnclamped(user_ptr, user_len) ==
    /\ user_runs
    /\ entered(WRITE, user_ptr, user_len, 0, 0)
    /\ UNCHANGED <<pmm_vars, loader_vars, boot_vars>>
    /\ LET bad == {i \in 0 .. (user_len - 1) : ~user_mapped(user_ptr + i)}
           written == IF bad = {} THEN user_len ELSE MinOf(bad)
       IN  /\ no_switch(PROCS, [trap_frame(WRITE, user_ptr, user_len, 0) EXCEPT !.rax = written])
           /\ serial_out' = [i \in 1 .. written |-> umem[current_pid][user_ptr + i - 1]]
    /\ UNCHANGED <<ENDPOINTS, NEXT_EP, umem, pmm_free, heap_free, halted>>
    /\ queues_same

\* syscall::WRITE: the bytes read before the first one that does not translate.
SysWrite(user_ptr, user_len) ==
    /\ user_runs
    /\ entered(WRITE, user_ptr, user_len, 0, 0)
    /\ UNCHANGED <<pmm_vars, loader_vars, boot_vars>>
    /\ LET n == Min(user_len, WRITE_MAX)
           bad == {i \in 0 .. (n - 1) : ~user_mapped(user_ptr + i)}
           written == IF bad = {} THEN n ELSE MinOf(bad)
       IN  /\ no_switch(PROCS, [trap_frame(WRITE, user_ptr, user_len, 0) EXCEPT !.rax = written])
           /\ serial_out' = [i \in 1 .. written |-> umem[current_pid][user_ptr + i - 1]]
    /\ UNCHANGED <<ENDPOINTS, NEXT_EP, umem, pmm_free, heap_free, halted>>
    /\ queues_same

\* syscall::IPC_EP_CREATE: ipc::ep_create
SysEpCreate ==
    /\ user_runs
    /\ entered(IPC_EP_CREATE, 0, 0, 0, 0)
    /\ UNCHANGED <<pmm_vars, loader_vars, boot_vars>>
    /\ serial_out' = <<>>
    /\ LET tf == trap_frame(IPC_EP_CREATE, 0, 0, 0)
           ep == endpoint_alloc
           cap == cap_alloc_index(PROCS, current_pid, ep)
       IN  /\ NEXT_EP' = NEXT_EP + 1
           /\ IF ep = 0 \/ cap = 0
              THEN no_switch(PROCS, [tf EXCEPT !.rax = U64_MAX])
              ELSE no_switch(cap_alloc_for(PROCS, current_pid, ep), [tf EXCEPT !.rax = cap])
           /\ legit' = IF NEXT_EP < MAX_ENDPOINTS /\ has_free_slot(PROCS, current_pid)
                       THEN [legit EXCEPT ![current_pid] = @ \cup {NEXT_EP + 1}]
                       ELSE legit
    /\ UNCHANGED <<ENDPOINTS, umem, pmm_free, heap_free, halted, fifo, stamp_ok, wait_order>>

\* syscall::IPC_SEND and syscall::IPC_SEND_CAP (IPC_SEND is the arm with
\* xfer_ep = 0 and no xfer_cap lookup).
ipc_send(nr, cap, user_ptr, len, xfer_cap) ==
    LET tf == trap_frame(nr, cap, user_ptr, len)
        user_len == Min(len, STAGE_MAX)
        xfer_ep == IF xfer_cap = 0 THEN 0 ELSE cap_lookup_current(xfer_cap)
        n == Min(user_len, MAX_MSG)
        tmp == user_copy_in(user_ptr, n)
        ep_id == cap_lookup_current(cap)
        pid == waiter_pop_pid(ENDPOINTS, ep_id)
        d == deliver_ipc(PROCS, umem, pid, tmp, xfer_ep)
        s == ep_send_cap(ENDPOINTS, cap, tmp, xfer_ep)
        sender_held == xfer_ep = 0 \/ xfer_ep \in held(PROCS, current_pid)
    IN  /\ user_runs
        /\ entered(nr, cap, user_ptr, len, xfer_cap)
        /\ UNCHANGED <<pmm_vars, loader_vars, boot_vars>>
        /\ serial_out' = <<>>
        /\ UNCHANGED <<NEXT_EP, pmm_free, heap_free, halted>>
        /\ IF xfer_cap # 0 /\ xfer_ep = 0
           THEN /\ no_switch(PROCS, [tf EXCEPT !.rax = U64_MAX])
                /\ UNCHANGED <<ENDPOINTS, umem>>
                /\ hist_same
           ELSE IF ~user_copy_in_ok(user_ptr, n)
           THEN /\ no_switch(PROCS, [tf EXCEPT !.rax = U64_MAX])
                /\ UNCHANGED <<ENDPOINTS, umem>>
                /\ hist_same
           ELSE IF ep_id = 0
           THEN /\ no_switch(PROCS, [tf EXCEPT !.rax = U64_MAX])
                /\ UNCHANGED <<ENDPOINTS, umem>>
                /\ hist_same
           ELSE IF pid # NoPid
           THEN /\ ENDPOINTS' = waiter_pop(ENDPOINTS, ep_id)
                /\ no_switch(d.procs, [tf EXCEPT !.rax = d.ret])
                /\ umem' = d.mem
                /\ legit' = IF /\ d.ret # U64_MAX /\ xfer_ep # 0 /\ sender_held
                               /\ has_free_slot(PROCS, pid)
                            THEN [legit EXCEPT ![pid] = @ \cup {xfer_ep}]
                            ELSE legit
                /\ wait_order' = IF d.ret # U64_MAX
                                 THEN [wait_order EXCEPT ![ep_id] =
                                         SelectSeq(@, LAMBDA w : w # pid)]
                                 ELSE wait_order
                /\ UNCHANGED <<fifo, stamp_ok>>
           ELSE /\ ENDPOINTS' = s.eps
                /\ no_switch(PROCS, [tf EXCEPT !.rax = s.ret])
                /\ umem' = umem
                /\ fifo' = IF s.ret >= 0
                           THEN [fifo EXCEPT ![ep_id] =
                                   Append(@, [data |-> tmp, ulen |-> len])]
                           ELSE fifo
                /\ stamp_ok' = IF s.ret >= 0
                               THEN [stamp_ok EXCEPT
                                       ![ep_id][ENDPOINTS[ep_id].tail % Q_LEN] = sender_held]
                               ELSE stamp_ok
                /\ UNCHANGED <<legit, wait_order>>

SysIpcSend(cap, user_ptr, len) == ipc_send(IPC_SEND, cap, user_ptr, len, 0)

SysIpcSendCap(cap, user_ptr, len, xfer_cap) ==
    ipc_send(IPC_SEND_CAP, cap, user_ptr, len, xfer_cap)

\* syscall::IPC_RECV and syscall::IPC_RECV_CAP.  The two arms differ in that
\* IPC_RECV_CAP writes tf.rdx on every path that returns and installs the
\* transferred endpoint; IPC_RECV drops it (ep_recv discards xfer_ep).
ipc_recv(nr, cap, user_ptr, max_len_arg) ==
    LET tf == trap_frame(nr, cap, user_ptr, max_len_arg)
        with_cap == nr = IPC_RECV_CAP
        max_len == Min(max_len_arg, STAGE_MAX)
        n == Min(max_len, MAX_MSG)
        r == ep_recv_cap(ENDPOINTS, cap, n)
        got == r.ret
        ep_id == cap_lookup_current(cap)
        fail(v) == IF with_cap THEN [tf EXCEPT !.rax = v, !.rdx = 0]
                               ELSE [tf EXCEPT !.rax = v]
        out == user_copy_out_in(umem, current_pid, user_ptr, r.data)
        install == with_cap /\ r.xfer_ep # 0
        new_cap == IF install THEN cap_alloc_index(PROCS, current_pid, r.xfer_ep) ELSE 0
        procs1 == IF install THEN cap_alloc_for(PROCS, current_pid, r.xfer_ep) ELSE PROCS
    IN  /\ user_runs
        /\ entered(nr, cap, user_ptr, max_len_arg, 0)
        /\ UNCHANGED <<pmm_vars, loader_vars, boot_vars>>
        /\ serial_out' = <<>>
        /\ UNCHANGED <<NEXT_EP, pmm_free, heap_free, halted>>
        /\ IF got = U64_MAX \/ got = ERR_EMPTY
           THEN /\ umem' = umem
                /\ UNCHANGED <<fifo, legit, stamp_ok>>
                /\ IF got = ERR_EMPTY /\ has_other_runnable
                   THEN IF ep_id # 0
                        THEN IF waiter_push_ok(ENDPOINTS, ep_id)
                             THEN /\ ENDPOINTS' = waiter_push(ENDPOINTS, ep_id, current_pid)
                                  /\ switch_from(block_current_on_ep(PROCS, ep_id), tf)
                                  /\ wait_order' = [wait_order EXCEPT ![ep_id] =
                                                      Append(@, current_pid)]
                             ELSE /\ no_switch(PROCS, fail(got))
                                  /\ UNCHANGED <<ENDPOINTS, wait_order>>
                        ELSE /\ no_switch(PROCS, fail(U64_MAX))
                             /\ UNCHANGED <<ENDPOINTS, wait_order>>
                   ELSE /\ no_switch(PROCS, fail(got))
                        /\ UNCHANGED <<ENDPOINTS, wait_order>>
           ELSE /\ ENDPOINTS' = r.eps
                /\ umem' = out.mem
                /\ IF out.ok
                   THEN IF with_cap
                        THEN no_switch(procs1, [tf EXCEPT !.rax = got, !.rdx = new_cap])
                        ELSE no_switch(PROCS, [tf EXCEPT !.rax = got])
                   ELSE no_switch(PROCS, fail(U64_MAX))
                /\ fifo' = IF fifo[ep_id] # <<>>
                           THEN [fifo EXCEPT ![ep_id] = Tail(@)] ELSE fifo
                /\ legit' = IF /\ install /\ out.ok
                               /\ stamp_ok[ep_id][ENDPOINTS[ep_id].head % Q_LEN]
                               /\ has_free_slot(PROCS, current_pid)
                            THEN [legit EXCEPT ![current_pid] = @ \cup {r.xfer_ep}]
                            ELSE legit
                /\ UNCHANGED <<stamp_ok, wait_order>>

SysIpcRecv(cap, user_ptr, max_len) == ipc_recv(IPC_RECV, cap, user_ptr, max_len)

SysIpcRecvCap(cap, user_ptr, max_len) == ipc_recv(IPC_RECV_CAP, cap, user_ptr, max_len)

\* syscall::PROC_SPAWN: user::spawn_init_from_syscall.  build_proc_from_init
\* takes its frames one alloc_table / alloc_frame at a time, each with
\* .expect(): the first that fails panics, with no frame left.  The kernel
\* stack is a Box on the bump heap: a null alloc ends in the alloc_error_handler.
SysProcSpawn(prog_id, role, share_cap) ==
    LET tf == trap_frame(PROC_SPAWN, prog_id, role, share_cap)
        ep_id == IF share_cap # 0 THEN cap_lookup_current(share_cap) ELSE 0
        pid == spawn_proc_slot(PROCS)
        child0 == [PROCS EXCEPT ![pid] = NewProc(pid, build_initial_tf(role, 0))]
        child_cap == IF ep_id # 0 THEN cap_alloc_index(child0, pid, ep_id) ELSE 0
        child1 == IF ep_id # 0 THEN cap_alloc_for(child0, pid, ep_id) ELSE child0
        child2 == [child1 EXCEPT ![pid].tf.rsi = child_cap]
    IN  /\ user_runs
        /\ entered(PROC_SPAWN, prog_id, role, share_cap, 0)
        /\ UNCHANGED <<pmm_vars, loader_vars, boot_vars>>
        /\ serial_out' = <<>>
        /\ UNCHANGED <<ENDPOINTS, NEXT_EP, umem, fifo, stamp_ok, wait_order>>
        /\ IF prog_id # 1
           THEN /\ no_switch(PROCS, [tf EXCEPT !.rax = U64_MAX])
                /\ UNCHANGED <<pmm_free, heap_free, halted, legit>>
           ELSE IF pmm_free < BUILD_FRAMES
           THEN /\ no_switch(PROCS, tf)
                /\ pmm_free' = 0
                /\ halted' = "panic"
                /\ UNCHANGED <<heap_free, legit>>
           ELSE IF heap_free < 1
           THEN /\ no_switch(PROCS, tf)
                /\ pmm_free' = pmm_free - BUILD_FRAMES
                /\ halted' = "oom"
                /\ UNCHANGED <<heap_free, legit>>
           ELSE /\ pmm_free' = pmm_free - BUILD_FRAMES
                /\ heap_free' = heap_free - 1
                /\ halted' = halted
                /\ IF pid = MAX_PROCS
                   THEN /\ no_switch(PROCS, [tf EXCEPT !.rax = U64_MAX])
                        /\ legit' = legit
                   ELSE /\ no_switch(child2, [tf EXCEPT !.rax = pid])
                        /\ legit' = [legit EXCEPT ![pid] =
                                       IF share_cap \in CapIdx
                                       THEN {PROCS[current_pid].caps[share_cap]} \ {0}
                                       ELSE {}]

\* An unknown number that falls into the YIELD arm.
SysUnknownYields ==
    /\ user_runs
    /\ entered(UNKNOWN_NR, 0, 0, 0, 0)
    /\ UNCHANGED <<pmm_vars, loader_vars, boot_vars>>
    /\ switch_from(PROCS, [trap_frame(UNKNOWN_NR, 0, 0, 0) EXCEPT !.rax = 0])
    /\ UNCHANGED <<ENDPOINTS, NEXT_EP, umem, pmm_free, heap_free, halted>>
    /\ hist_same

\* Any other syscall number.
SysUnknown ==
    /\ user_runs
    /\ entered(UNKNOWN_NR, 0, 0, 0, 0)
    /\ UNCHANGED <<pmm_vars, loader_vars, boot_vars>>
    /\ no_switch(PROCS, [trap_frame(UNKNOWN_NR, 0, 0, 0) EXCEPT !.rax = U64_MAX])
    /\ UNCHANGED <<ENDPOINTS, NEXT_EP, umem, pmm_free, heap_free, halted>>
    /\ hist_same

\* mantra_timer_irq_rust -> sched::on_timer_irq, taken with the user registers
\* tf: the interrupted frame is saved as it is and the scheduler picks the
\* next slot.
TimerIrq(tf) ==
    /\ user_runs
    /\ entered(TIMER, tf.rdi, tf.rsi, tf.rdx, tf.rax)
    /\ UNCHANGED <<pmm_vars, loader_vars, boot_vars>>
    /\ switch_from(PROCS, tf)
    /\ UNCHANGED <<ENDPOINTS, NEXT_EP, umem, pmm_free, heap_free, halted>>
    /\ hist_same

\* ------------------------------------------------------------------------
\* The arguments user code passes, and the specifications.

CapArgs == 0 .. CAPS_PER_PROC
PtrArgs == {0, USER_TOP - 1}
LenArgs == {1, 3}
ProgArgs == {1, 2}
RoleArgs == {2}
UsedCaps == {1, 2}
XferCaps == {0, 1, 2}

\* The user registers a timer interrupt finds.
TimerFrames == {ZeroFrame}

\* The endpoint's ring tail / waiter tail / NEXT_EP is still below the bound.
tail_below(cap, m) ==
    LET e == cap_lookup_current(cap)
    IN  IF e = 0 THEN TRUE ELSE ENDPOINTS[e].tail < m

wait_tail_below(cap, m) ==
    LET e == cap_lookup_current(cap)
    IN  IF e = 0 THEN TRUE ELSE ENDPOINTS[e].wait_tail < m

Next ==
    \/ SysPutc(1)
    \/ SysYield
    \/ \E p \in PtrArgs, l \in LenArgs : SysWrite(p, l)
    \/ NEXT_EP < MaxNextEp /\ SysEpCreate
    \/ \E c \in CapArgs, p \in PtrArgs, l \in LenArgs :
          tail_below(c, MaxTail) /\ SysIpcSend(c, p, l)
    \/ \E c \in CapArgs, p \in PtrArgs, l \in LenArgs, x \in CapArgs :
          tail_below(c, MaxTail) /\ SysIpcSendCap(c, p, l, x)
    \/ \E c \in CapArgs, p \in PtrArgs, l \in LenArgs :
          wait_tail_below(c, MaxWaitTail) /\ SysIpcRecv(c, p, l)
    \/ \E c \in CapArgs, p \in PtrArgs, l \in LenArgs :
          wait_tail_below(c, MaxWaitTail) /\ SysIpcRecvCap(c, p, l)
    \/ \E g \in ProgArgs, r \in RoleArgs, c \in CapArgs : SysProcSpawn(g, r, c)
    \/ SysUnknown
    \/ \E tf \in TimerFrames : TimerIrq(tf)

Spec == Init /\ [][Next]_vars

\* The specifications below are Spec with the user code restricted to the
\* calls one part of the kernel is exercised by; every behaviour of one of
\* them is a behaviour of Spec.

\* One process, one endpoint: the message ring, with its counters run past
\* twice the ring length.
NextRing ==
    \/ NEXT_EP < 1 /\ SysEpCreate
    \/ \E p \in PtrArgs, l \in LenArgs :
          tail_below(1, RingMaxTail) /\ SysIpcSend(1, p, l)
    \/ \E p \in PtrArgs, l \in LenArgs : SysIpcRecv(1, p, l)

SpecRing == Init /\ [][NextRing]_vars

\* Processes sharing one endpoint: queued and direct delivery, blocking,
\* waking and scheduling.
NextIpc ==
    \/ NEXT_EP < 1 /\ SysEpCreate
    \/ SysProcSpawn(1, 1, 1)
    \/ \E l \in LenArgs :
          tail_below(1, MaxTail) /\ SysIpcSend(1, 0, l)
    \/ \E p \in PtrArgs, l \in LenArgs :
          wait_tail_below(1, MaxWaitTail) /\ SysIpcRecv(1, p, l)
    \/ SysYield
    \/ \E tf \in TimerFrames : TimerIrq(tf)

SpecIpc == Init /\ [][NextIpc]_vars

\* Capabilities: creation, inheritance at spawn and transfer in messages of
\* one byte.
NextCap ==
    \/ NEXT_EP < MAX_ENDPOINTS /\ SysEpCreate
    \/ \E c \in {0, 1} : SysProcSpawn(1, 1, c)
    \/ \E c \in UsedCaps, x \in XferCaps :
          tail_below(c, CapMaxTail) /\ SysIpcSendCap(c, 0, 1, x)
    \/ \E c \in UsedCaps :
          wait_tail_below(c, CapMaxWaitTail) /\ SysIpcRecvCap(c, 0, 1)
    \/ SysYield

SpecCap == Init /\ [][NextCap]_vars

\* Two endpoints, each inherited by one child: who wakes whom.
NextWake ==
    \/ NEXT_EP < MAX_ENDPOINTS /\ SysEpCreate
    \/ \E c \in UsedCaps : SysProcSpawn(1, 1, c)
    \/ \E c \in UsedCaps : tail_below(c, CapMaxTail) /\ SysIpcSend(c, 0, 1)
    \/ \E c \in UsedCaps : wait_tail_below(c, MaxWaitTail) /\ SysIpcRecv(c, 0, 1)
    \/ SysYield
    \/ \E tf \in TimerFrames : TimerIrq(tf)

SpecWake == Init /\ [][NextWake]_vars

\* Process creation against the memory the boot left.
NextSpawn ==
    \/ \E g \in ProgArgs, r \in RoleArgs, c \in CapArgs : SysProcSpawn(g, r, c)
    \/ NEXT_EP < MaxNextEp /\ SysEpCreate
    \/ SysPutc(1)
    \/ \E p \in PtrArgs, l \in LenArgs : SysWrite(p, l)
    \/ SysYield
    \/ SysUnknown
    \/ \E tf \in TimerFrames : TimerIrq(tf)

SpecSpawn == InitSpawn /\ [][NextSpawn]_vars

\* ------------------------------------------------------------------------
\* Properties.  A step is read through the history variable last (the entry
\* that made it), the state before it and the state after it.

\* The endpoint slot cap of pid's table names (0: none), read from the table.
named(pid, cap) == IF cap \in CapIdx THEN PROCS[pid].caps[cap] ELSE 0

\* Every byte of the n-byte user buffer at ptr translates.
buffer_ok(ptr, n) == \A i \in 0 .. (n - 1) : (ptr + i) \in UAddr

\* The bytes a send can carry of a buffer of len bytes.
carried(len) == Min(Min(len, STAGE_MAX), MAX_MSG)

\* C1: on every endpoint the messages stored and not yet received are exactly
\* the accepted messages not yet received, in the order they were sent: none
\* is lost, duplicated, reordered or overwritten.
C1_QueueIsFifo ==
    \A e \in EpId :
        LET ep == ENDPOINTS[e]
        IN  /\ ep.tail - ep.head = Len(fifo[e])
            /\ \A i \in 1 .. Len(fifo[e]) :
                  ep.buf[(ep.head + i - 1) % Q_LEN].data = fifo[e][i].data

\* C2: on every endpoint the number of messages sent and not yet received
\* never exceeds Q_LEN.
C2_QueueBounded ==
    \A e \in EpId : ENDPOINTS[e].tail - ENDPOINTS[e].head <= Q_LEN

\* C3: a send of a readable message on a valid cap whose endpoint has an empty
\* queue and a waiter enqueues nothing, makes the waiter at the head of the
\* waiter list runnable with blocked_ep 0, and leaves the delivered length both
\* in the waiter's saved RAX and in the sender's RAX.
C3_DirectDelivery ==
    [][LET e == named(CURRENT, last'.rdi)
       IN  (/\ last'.nr \in {IPC_SEND, IPC_SEND_CAP}
            /\ e # 0
            /\ (last'.rcx # 0 => named(CURRENT, last'.rcx) # 0)
            /\ buffer_ok(last'.rsi, carried(last'.rdx))
            /\ ENDPOINTS[e].head = ENDPOINTS[e].tail
            /\ ENDPOINTS[e].wait_head # ENDPOINTS[e].wait_tail)
           => LET w == ENDPOINTS[e].waiters[ENDPOINTS[e].wait_head % MAX_WAITERS]
                  delivered == Min(carried(last'.rdx), carried(PROCS[w].tf.rdx))
              IN  /\ ENDPOINTS'[e].tail = ENDPOINTS[e].tail
                  /\ PROCS'[w].runnable
                  /\ PROCS'[w].blocked_ep = 0
                  /\ PROCS'[w].tf.rax = delivered
                  /\ regs'.rax = delivered]_vars

\* C4: a receive on a valid cap whose endpoint has an empty queue blocks
\* exactly when another alive runnable process exists.  Then the caller is
\* appended to the waiter list, its blocked_ep is the endpoint, it is not
\* runnable and another process runs; otherwise the call returns MAX-2, the
\* caller stays runnable and current and no waiter is recorded.
C4_RecvBlocksIffOtherRunnable ==
    [][LET e == named(CURRENT, last'.rdi)
           other == \E q \in Pid : q # CURRENT /\ PROCS[q].alive /\ PROCS[q].runnable
       IN  (/\ last'.nr \in {IPC_RECV, IPC_RECV_CAP}
            /\ e # 0
            /\ ENDPOINTS[e].head = ENDPOINTS[e].tail)
           => IF other
              THEN /\ ENDPOINTS'[e].wait_tail = ENDPOINTS[e].wait_tail + 1
                   /\ ENDPOINTS'[e].wait_head = ENDPOINTS[e].wait_head
                   /\ ENDPOINTS'[e].waiters[ENDPOINTS[e].wait_tail % MAX_WAITERS] = CURRENT
                   /\ \A i \in ENDPOINTS[e].wait_head .. (ENDPOINTS[e].wait_tail - 1) :
                         ENDPOINTS'[e].waiters[i % MAX_WAITERS] =
                             ENDPOINTS[e].waiters[i % MAX_WAITERS]
                   /\ PROCS'[CURRENT].blocked_ep = e
                   /\ ~PROCS'[CURRENT].runnable
                   /\ CURRENT' # CURRENT
                   /\ PROCS'[CURRENT'].alive /\ PROCS'[CURRENT'].runnable
              ELSE /\ regs'.rax = ERR_EMPTY
                   /\ PROCS'[CURRENT].runnable
                   /\ PROCS'[CURRENT].blocked_ep = 0
                   /\ CURRENT' = CURRENT
                   /\ ENDPOINTS' = ENDPOINTS]_vars

\* A receive has just blocked its caller and another process runs.
C4_Witness ==
    /\ last.nr = IPC_RECV
    /\ last.pid # CURRENT
    /\ ~PROCS[last.pid].runnable
    /\ PROCS[last.pid].blocked_ep = named(last.pid, last.rdi)
    /\ PROCS[last.pid].blocked_ep # 0

\* C5: a process blocked on endpoint e becomes runnable only in a step that
\* is a send on a capability naming e.
C5_WakeOnlyBySend ==
    [][\A p \in Pid :
          (/\ PROCS[p].alive
           /\ ~PROCS[p].runnable
           /\ PROCS[p].blocked_ep # 0
           /\ PROCS'[p].runnable)
          => /\ last'.nr \in {IPC_SEND, IPC_SEND_CAP}
             /\ named(CURRENT, last'.rdi) = PROCS[p].blocked_ep]_vars

\* A send has just woken a receiver while a process is still blocked on the
\* other endpoint.
C5_Witness ==
    /\ last.nr = IPC_SEND
    /\ last.pid = CURRENT
    /\ \E p \in Pid, q \in Pid :
          /\ p # CURRENT /\ PROCS[p].runnable /\ PROCS[p].tf.rax >= 1
          /\ PROCS[p].tf.rdi = last.rdi
          /\ ~PROCS[q].runnable /\ PROCS[q].alive
          /\ PROCS[q].blocked_ep # named(CURRENT, last.rdi)

\* The waiter at the head of endpoint e's waiter list.
head_waiter(e) == ENDPOINTS[e].waiters[ENDPOINTS[e].wait_head % MAX_WAITERS]

\* The message at the head of endpoint e's ring.
head_msg(e) == ENDPOINTS[e].buf[ENDPOINTS[e].head % Q_LEN]

\* C6: a receive on an endpoint holding exactly one message, into a writable
\* buffer, stores the first n bytes of the sent payload and returns n in RAX,
\* n = min(sender_len, receiver_max, MAX_MSG); a send to an endpoint with a
\* blocked receiver whose buffer is writable does the same for the receiver.
C6_Truncation ==
    [][LET e == named(CURRENT, last'.rdi)
       IN  /\ (/\ last'.nr \in {IPC_RECV, IPC_RECV_CAP}
               /\ e # 0
               /\ Len(fifo[e]) = 1
               /\ ENDPOINTS[e].tail - ENDPOINTS[e].head = 1
               /\ buffer_ok(last'.rsi,
                            Min(Min(fifo[e][1].ulen, last'.rdx), MAX_MSG)))
              => LET n == Min(Min(fifo[e][1].ulen, last'.rdx), MAX_MSG)
                 IN  /\ regs'.rax = n
                     /\ \A i \in 0 .. (n - 1) :
                           umem'[CURRENT][last'.rsi + i] = fifo[e][1].data[i + 1]
           /\ (/\ last'.nr \in {IPC_SEND, IPC_SEND_CAP}
               /\ e # 0
               /\ (last'.rcx # 0 => named(CURRENT, last'.rcx) # 0)
               /\ buffer_ok(last'.rsi, carried(last'.rdx))
               /\ ENDPOINTS[e].head = ENDPOINTS[e].tail
               /\ ENDPOINTS[e].wait_head # ENDPOINTS[e].wait_tail
               /\ buffer_ok(PROCS[head_waiter(e)].tf.rsi,
                            Min(Min(last'.rdx, PROCS[head_waiter(e)].tf.rdx), MAX_MSG)))
              => LET w == head_waiter(e)
                     n == Min(Min(last'.rdx, PROCS[w].tf.rdx), MAX_MSG)
                 IN  /\ PROCS'[w].tf.rax = n
                     /\ \A i \in 0 .. (n - 1) :
                           umem'[w][PROCS[w].tf.rsi + i] = umem[CURRENT][last'.rsi + i]]_vars

\* A receive asking for more than MAX_MSG bytes has just returned MAX_MSG
\* bytes, and a process woken by a direct delivery holds a shorter count.
C6_Witness ==
    /\ last.nr = IPC_RECV
    /\ last.pid = CURRENT
    /\ last.rdx > MAX_MSG
    /\ regs.rax = MAX_MSG
    /\ \E p \in Pid : p # CURRENT /\ PROCS[p].runnable /\ PROCS[p].tf.rax = 1
                        /\ PROCS[p].tf.rdi = 1

\* C7: every non-zero capability slot names an endpoint its process was
\* given (created, inherited at spawn from a parent holding it, or transferred
\* by a sender holding it), and a step changes an endpoint only if its caller
\* had been given that endpoint.
C7_CapsWereGiven ==
    [][/\ \A p \in Pid, c \in CapIdx :
             PROCS'[p].caps[c] # 0 => PROCS'[p].caps[c] \in legit'[p]
       /\ \A e \in EpId :
             ENDPOINTS'[e] # ENDPOINTS[e] => e \in legit[CURRENT]]_vars

\* Two processes each hold both endpoints.
C7_Witness ==
    \E p \in Pid, q \in Pid :
        /\ p # q
        /\ \A e \in {1, 2} : e \in held(PROCS, p) /\ e \in held(PROCS, q)

has_free(pid) == \E c \in CapIdx : PROCS[pid].caps[c] = 0

lowest_free(pid) == MinOf({c \in CapIdx : PROCS[pid].caps[c] = 0})

\* C8: IPC_SEND_CAP stamps the endpoint its xfer_cap names; a receiver with a
\* free slot gets, from the queue or by direct delivery, the lowest free index
\* in RDX and that slot names the endpoint; a send on a cap reaches the
\* endpoint the cap names and no other, and a receive takes from it.
C8_TransferInstallsCap ==
    [][LET e == named(CURRENT, last'.rdi)
           E == named(CURRENT, last'.rcx)
       IN  /\ (/\ last'.nr = IPC_SEND_CAP
               /\ e # 0 /\ E # 0
               /\ ENDPOINTS'[e].tail = ENDPOINTS[e].tail + 1)
              => ENDPOINTS'[e].buf[ENDPOINTS[e].tail % Q_LEN].xfer_ep = E
           /\ (/\ last'.nr = IPC_RECV_CAP
               /\ e # 0
               /\ ENDPOINTS[e].head # ENDPOINTS[e].tail
               /\ head_msg(e).xfer_ep # 0
               /\ buffer_ok(last'.rsi, Min(head_msg(e).len, carried(last'.rdx)))
               /\ has_free(CURRENT))
              => /\ regs'.rdx = lowest_free(CURRENT)
                 /\ PROCS'[CURRENT].caps =
                       [PROCS[CURRENT].caps EXCEPT ![lowest_free(CURRENT)] =
                                                       head_msg(e).xfer_ep]
           /\ (/\ last'.nr = IPC_SEND_CAP
               /\ e # 0 /\ E # 0
               /\ buffer_ok(last'.rsi, carried(last'.rdx))
               /\ ENDPOINTS[e].wait_head # ENDPOINTS[e].wait_tail
               /\ buffer_ok(PROCS[head_waiter(e)].tf.rsi,
                            Min(carried(last'.rdx), carried(PROCS[head_waiter(e)].tf.rdx)))
               /\ has_free(head_waiter(e)))
              => LET w == head_waiter(e)
                 IN  /\ PROCS'[w].tf.rdx = lowest_free(w)
                     /\ PROCS'[w].caps = [PROCS[w].caps EXCEPT ![lowest_free(w)] = E]
           /\ (/\ last'.nr \in {IPC_SEND, IPC_SEND_CAP, IPC_RECV, IPC_RECV_CAP}
               /\ e # 0)
              => \A e2 \in EpId \ {e} : ENDPOINTS'[e2] = ENDPOINTS[e2]
           /\ (/\ last'.nr \in {IPC_SEND, IPC_SEND_CAP}
               /\ e # 0
               /\ (last'.rcx # 0 => E # 0)
               /\ buffer_ok(last'.rsi, carried(last'.rdx))
               /\ ENDPOINTS[e].wait_head = ENDPOINTS[e].wait_tail
               /\ regs'.rax # ERR_FULL)
              => /\ ENDPOINTS'[e].tail = ENDPOINTS[e].tail + 1
                 /\ ENDPOINTS'[e].buf[ENDPOINTS[e].tail % Q_LEN].data =
                       [i \in 1 .. carried(last'.rdx) |->
                           umem[CURRENT][last'.rsi + i - 1]]
           /\ (/\ last'.nr \in {IPC_RECV, IPC_RECV_CAP}
               /\ e # 0
               /\ ENDPOINTS[e].head # ENDPOINTS[e].tail
               /\ buffer_ok(last'.rsi, Min(head_msg(e).len, carried(last'.rdx))))
              => /\ ENDPOINTS'[e].head = ENDPOINTS[e].head + 1
                 /\ \A i \in 1 .. Min(head_msg(e).len, carried(last'.rdx)) :
                       umem'[CURRENT][last'.rsi + i - 1] = head_msg(e).data[i]]_vars

\* A receiver with two free slots has just been handed the lower one.
C8_Witness ==
    /\ last.nr = IPC_RECV_CAP
    /\ last.pid = CURRENT
    /\ regs.rdx = 2
    /\ PROCS[CURRENT].caps[1] # 0
    /\ PROCS[CURRENT].caps[2] # 0
    /\ PROCS[CURRENT].caps[3] = 0

\* C9: a message carrying an endpoint that reaches a receiver with no free
\* slot (from the queue or by direct delivery) still hands over its payload,
\* with the byte count in RAX, 0 in RDX and the capability table unchanged.
C9_FullTableKeepsPayload ==
    [][LET e == named(CURRENT, last'.rdi)
           E == named(CURRENT, last'.rcx)
       IN  /\ (/\ last'.nr = IPC_RECV_CAP
               /\ e # 0
               /\ ENDPOINTS[e].head # ENDPOINTS[e].tail
               /\ head_msg(e).xfer_ep # 0
               /\ buffer_ok(last'.rsi, Min(head_msg(e).len, carried(last'.rdx)))
               /\ ~has_free(CURRENT))
              => LET n == Min(head_msg(e).len, carried(last'.rdx))
                 IN  /\ regs'.rax = n
                     /\ regs'.rdx = 0
                     /\ PROCS'[CURRENT].caps = PROCS[CURRENT].caps
                     /\ \A i \in 1 .. n :
                           umem'[CURRENT][last'.rsi + i - 1] = head_msg(e).data[i]
           /\ (/\ last'.nr = IPC_SEND_CAP
               /\ e # 0 /\ E # 0
               /\ buffer_ok(last'.rsi, carried(last'.rdx))
               /\ ENDPOINTS[e].wait_head # ENDPOINTS[e].wait_tail
               /\ buffer_ok(PROCS[head_waiter(e)].tf.rsi,
                            Min(carried(last'.rdx), carried(PROCS[head_waiter(e)].tf.rdx)))
               /\ ~has_free(head_waiter(e)))
              => LET w == head_waiter(e)
                     n == Min(carried(last'.rdx), carried(PROCS[w].tf.rdx))
                 IN  /\ PROCS'[w].tf.rax = n
                     /\ PROCS'[w].tf.rdx = 0
                     /\ regs'.rax = n
                     /\ PROCS'[w].caps = PROCS[w].caps
                     /\ \A i \in 0 .. (n - 1) :
                           umem'[w][PROCS[w].tf.rsi + i] = umem[CURRENT][last'.rsi + i]]_vars

\* A receiver whose table is full has just taken a message that carried an
\* endpoint and got RDX = 0.
C9_Witness ==
    /\ last.nr = IPC_RECV_CAP
    /\ last.pid = CURRENT
    /\ regs.rax = 1
    /\ regs.rdx = 0
    /\ \A c \in CapIdx : PROCS[CURRENT].caps[c] # 0
    /\ LET e == named(CURRENT, last.rdi)
       IN  /\ e # 0
           /\ ENDPOINTS[e].head >= 1
           /\ ENDPOINTS[e].buf[(ENDPOINTS[e].head - 1) % Q_LEN].xfer_ep # 0

\* C10: no sequence of system calls stops the kernel.
C10_KernelKeepsRunning == halted = "no"

\* C11: when the copy of a message to a user buffer fails because a byte of
\* the buffer does not translate (a receive from the queue, or a direct
\* delivery to a blocked receiver), the call returns MAX and no byte of user
\* memory has changed.
C11_NoPartialWrite ==
    [][LET e == named(CURRENT, last'.rdi)
       IN  /\ (/\ last'.nr \in {IPC_RECV, IPC_RECV_CAP}
               /\ e # 0
               /\ ENDPOINTS[e].head # ENDPOINTS[e].tail
               /\ ~buffer_ok(last'.rsi, Min(head_msg(e).len, carried(last'.rdx))))
              => (regs'.rax = U64_MAX /\ umem' = umem)
           /\ (/\ last'.nr \in {IPC_SEND, IPC_SEND_CAP}
               /\ e # 0
               /\ (last'.rcx # 0 => named(CURRENT, last'.rcx) # 0)
               /\ buffer_ok(last'.rsi, carried(last'.rdx))
               /\ ENDPOINTS[e].wait_head # ENDPOINTS[e].wait_tail
               /\ ~buffer_ok(PROCS[head_waiter(e)].tf.rsi,
                             Min(carried(last'.rdx),
                                 carried(PROCS[head_waiter(e)].tf.rdx))))
              => (regs'.rax = U64_MAX /\ umem' = umem)]_vars

\* ------------------------------------------------------------------------
\* User buffers at every kind of page: user pages, the kernel identity page,
\* the HHDM page and a page that is not present, with one endpoint and at
\* most two processes.
WalkPtrs == 0 .. (HHDM_PAGE + 1)
WalkLens == {1, 2}
WalkMaxTail == 1
WalkMaxProcs == 2

NextWalk ==
    \/ NEXT_EP < 1 /\ SysEpCreate
    \/ Cardinality({p \in Pid : PROCS[p].alive}) < WalkMaxProcs /\ SysProcSpawn(1, 1, 1)
    \/ \E p \in WalkPtrs, l \in WalkLens : tail_below(1, WalkMaxTail) /\ SysIpcSend(1, p, l)
    \/ \E p \in WalkPtrs, l \in WalkLens : wait_tail_below(1, WalkMaxTail) /\ SysIpcRecv(1, p, l)
    \/ \E p \in WalkPtrs, l \in WalkLens \cup {WRITE_MAX + 1} : SysWrite(p, l)
    \/ SysYield

SpecWalk == Init /\ [][NextWalk]_vars

\* The four entries on the walk of a virtual page all carry P and U.
all_levels_PU(v) ==
    /\ v \in VPages
    /\ \A level \in 1 .. 4 : {"P", "U"} \subseteq page_tables[v][level]

\* C12: the kernel reads or writes a byte at a user-supplied address only if
\* the walk for that address has P and U at all four levels; the bytes of a
\* system-call argument are the calling process's, and the bytes a direct
\* delivery writes are the blocked receiver's.
C12_WalkNeedsPresentUser ==
    [][LET e == named(CURRENT, last'.rdi)
           target == IF last'.nr \in {IPC_RECV, IPC_RECV_CAP} THEN CURRENT
                     ELSE IF last'.nr \in {IPC_SEND, IPC_SEND_CAP} /\ e # 0
                     THEN head_waiter(e)
                     ELSE NoPid
       IN  /\ \A p \in Pid, a \in VPages :
                umem'[p][a] # umem[p][a] => (all_levels_PU(a) /\ p = target)
           /\ (last'.nr = IPC_SEND /\ regs'.rax \notin {U64_MAX, ERR_FULL})
              => /\ \A i \in 0 .. (carried(last'.rdx) - 1) : all_levels_PU(last'.rsi + i)
                 /\ ENDPOINTS'[e].tail # ENDPOINTS[e].tail
                    => \A i \in 1 .. carried(last'.rdx) :
                          ENDPOINTS'[e].buf[ENDPOINTS[e].tail % Q_LEN].data[i]
                              = umem[CURRENT][last'.rsi + i - 1]
                 /\ ENDPOINTS'[e].tail = ENDPOINTS[e].tail
                    => \A i \in 0 .. (regs'.rax - 1) :
                          umem'[target][PROCS[target].tf.rsi + i]
                              = umem[CURRENT][last'.rsi + i]
           /\ last'.nr = WRITE
              => \A i \in 0 .. (regs'.rax - 1) : all_levels_PU(last'.rdi + i)]_vars

\* A send whose buffer starts on the last user page and runs into the kernel
\* identity page has been refused.
C12_Witness ==
    /\ last.nr = IPC_SEND
    /\ named(last.pid, last.rdi) # 0
    /\ last.rsi = USER_TOP - 1
    /\ last.rdx = 2
    /\ all_levels_PU(last.rsi) /\ ~all_levels_PU(last.rsi + 1)
    /\ regs.rax = U64_MAX

\* ------------------------------------------------------------------------
\* The four IPC calls with capability indices that are 0, valid, an empty
\* slot, or beyond the table, on one endpoint.
InvalCaps == {0, 1, 2, CAPS_PER_PROC + 1}
InvalMaxTail == 1
InvalMaxProcs == 2

NextInval ==
    \/ NEXT_EP < 1 /\ SysEpCreate
    \/ Cardinality({p \in Pid : PROCS[p].alive}) < InvalMaxProcs /\ SysProcSpawn(1, 1, 1)
    \/ \E c \in InvalCaps : tail_below(c, InvalMaxTail) /\ SysIpcSend(c, 0, 1)
    \/ \E c \in InvalCaps : wait_tail_below(c, InvalMaxTail) /\ SysIpcRecv(c, 0, 1)
    \/ \E c \in InvalCaps, x \in InvalCaps :
          tail_below(c, InvalMaxTail) /\ SysIpcSendCap(c, 0, 1, x)
    \/ \E c \in InvalCaps : wait_tail_below(c, InvalMaxTail) /\ SysIpcRecvCap(c, 0, 1)
    \/ SysYield

SpecInval == Init /\ [][NextInval]_vars

\* The capability index resolves to nothing in the table of pid: it is 0,
\* beyond the table, or names an empty slot.
unresolved(pid, cap) ==
    \/ cap = 0
    \/ cap > CAPS_PER_PROC
    \/ (cap \in CapIdx /\ PROCS[pid].caps[cap] = 0)

\* C13: IPC_SEND, IPC_RECV, IPC_SEND_CAP and IPC_RECV_CAP with a capability
\* index that is 0, beyond the table or an empty slot of the caller's table,
\* and IPC_SEND_CAP with a non-zero xfer_cap that does not resolve, return
\* MAX, do not block, and leave every endpoint, capability table, process
\* state and user memory unchanged.
C13_InvalidCapRefused ==
    [][(/\ last'.nr \in {IPC_SEND, IPC_RECV, IPC_SEND_CAP, IPC_RECV_CAP}
        /\ \/ unresolved(CURRENT, last'.rdi)
           \/ (last'.nr = IPC_SEND_CAP /\ last'.rcx # 0 /\ unresolved(CURRENT, last'.rcx)))
       => /\ regs'.rax = U64_MAX
          /\ CURRENT' = CURRENT
          /\ ENDPOINTS' = ENDPOINTS
          /\ PROCS' = PROCS
          /\ umem' = umem]_vars

\* A process that holds a capability, while another process is runnable, has
\* called IPC_RECV on an index beyond its table and got MAX.
C13_Witness ==
    /\ last.nr = IPC_RECV
    /\ last.rdi > CAPS_PER_PROC
    /\ PROCS[last.pid].caps[1] # 0
    /\ \E q \in Pid : q # last.pid /\ PROCS[q].alive /\ PROCS[q].runnable
    /\ CURRENT = last.pid
    /\ regs.rax = U64_MAX

\* C14: waiters on an endpoint are woken in the order in which they blocked:
\* a send that hands its message to a blocked receiver hands it to the
\* process that has been blocked on the endpoint the longest.
C14_WaitersWokenFifo ==
    [][\A p \in Pid :
          (/\ last'.nr \in {IPC_SEND, IPC_SEND_CAP}
           /\ PROCS[p].alive /\ ~PROCS[p].runnable
           /\ PROCS'[p].runnable)
          => p = Head(wait_order[PROCS[p].blocked_ep])]_vars

\* C15: a successful PROC_SPAWN(1, role, share_cap), where share_cap names
\* endpoint E in the parent's table, makes a previously free slot an alive,
\* runnable, unblocked process and returns its pid; the child's only
\* capability is slot 1, naming E; the child's saved RDI is role and its
\* saved RSI is 1; the parent's table and every other process are unchanged.
C15_SpawnSharesEndpoint ==
    [][(/\ last'.nr = PROC_SPAWN
        /\ last'.rdi = 1
        /\ named(CURRENT, last'.rdx) # 0
        /\ halted' = "no"
        /\ regs'.rax # U64_MAX)
       => LET child == regs'.rax
          IN  /\ child \in Pid
              /\ ~PROCS[child].alive
              /\ PROCS'[child].alive
              /\ PROCS'[child].runnable
              /\ PROCS'[child].blocked_ep = 0
              /\ PROCS'[child].caps[1] = named(CURRENT, last'.rdx)
              /\ \A c \in CapIdx : c # 1 => PROCS'[child].caps[c] = 0
              /\ PROCS'[child].tf.rdi = last'.rsi
              /\ PROCS'[child].tf.rsi = 1
              /\ CURRENT' = CURRENT
              /\ \A q \in Pid : q # child => PROCS'[q] = PROCS[q]]_vars

\* A parent holding an endpoint has spawned a child with it, with a role
\* that differs from the child's capability index.
C15_Witness ==
    /\ last.nr = PROC_SPAWN
    /\ last.rdi = 1
    /\ last.rsi # 1
    /\ named(last.pid, last.rdx) # 0
    /\ halted = "no"
    /\ regs.rax \in Pid \ {last.pid}
    /\ PROCS[regs.rax].alive
    /\ PROCS[regs.rax].caps[1] = named(last.pid, last.rdx)

\* C16: PROC_SPAWN returns MAX and leaves the process table unchanged (no
\* slot becomes alive, no process's fields or capabilities change) when
\* prog_id is not 1 or when every slot is already alive.
C16_SpawnRefusedCleanly ==
    [][(/\ last'.nr = PROC_SPAWN
        /\ (last'.rdi # 1 \/ \A p \in Pid : PROCS[p].alive))
       => /\ regs'.rax = U64_MAX
          /\ halted' = "no"
          /\ PROCS' = PROCS]_vars

\* C17: PROC_SPAWN with a non-zero share_cap that does not resolve to an
\* endpoint in the parent's capability table returns MAX and creates no
\* process.
C17_SpawnBadShareCap ==
    [][(/\ last'.nr = PROC_SPAWN
        /\ last'.rdx # 0
        /\ unresolved(CURRENT, last'.rdx))
       => /\ regs'.rax = U64_MAX
          /\ \A p \in Pid : PROCS'[p].alive = PROCS[p].alive]_vars

\* C18: every successful IPC_EP_CREATE returns the index of the lowest free
\* slot of the caller's capability table, and that slot then names an
\* endpoint id in 1..MAX_ENDPOINTS that no capability of any process named
\* before the call; once MAX_ENDPOINTS ids have been handed out every further
\* IPC_EP_CREATE returns MAX.
C18_CreateHandsOutFreshIds ==
    [][last'.nr = IPC_EP_CREATE
       => /\ regs'.rax # U64_MAX
             => /\ has_free(CURRENT)
                /\ regs'.rax = lowest_free(CURRENT)
                /\ PROCS'[CURRENT].caps[regs'.rax] \in EpId
                /\ \A p \in Pid, c \in CapIdx :
                      PROCS[p].caps[c] # PROCS'[CURRENT].caps[regs'.rax]
                /\ \A c \in CapIdx :
                      c # regs'.rax => PROCS'[CURRENT].caps[c] = PROCS[CURRENT].caps[c]
          /\ NEXT_EP >= MAX_ENDPOINTS => regs'.rax = U64_MAX]_vars

\* A process that created MAX_ENDPOINTS endpoints and still has a free slot
\* has called IPC_EP_CREATE again and got MAX.
C18_Witness ==
    /\ last.nr = IPC_EP_CREATE
    /\ regs.rax = U64_MAX
    /\ NEXT_EP > MAX_ENDPOINTS
    /\ has_free(last.pid)
    /\ \A e \in EpId : \E p \in Pid, c \in CapIdx : PROCS[p].caps[c] = e

\* Exactly two processes are alive and both are runnable.
two_runnable(procs) ==
    /\ Cardinality({p \in Pid : procs[p].alive}) = 2
    /\ \A p \in Pid : procs[p].alive => procs[p].runnable

\* C19: with exactly two alive processes, both runnable, every timer tick
\* switches to the other process; a tick that directly follows a tick
\* therefore resumes the process the earlier tick interrupted, so over any
\* window of ticks the two are selected equally often up to one.
C19_TimerAlternates ==
    [][(last'.nr = TIMER /\ two_runnable(PROCS))
       => /\ CURRENT' # CURRENT
          /\ PROCS'[CURRENT'].alive /\ PROCS'[CURRENT'].runnable
          /\ two_runnable(PROCS')
          /\ last.nr = TIMER => CURRENT' = last.pid]_vars

\* A tick taken with two runnable processes has given the CPU to the other
\* one, and the interrupted one is off the CPU with its frame saved.
C19_Witness ==
    /\ last.nr = TIMER
    /\ two_runnable(PROCS)
    /\ CURRENT # last.pid
    /\ PROCS[last.pid].tf = ZeroFrame
    /\ regs = ZeroFrame

\* ------------------------------------------------------------------------
\* Timer interrupts that find the user registers in different states, among
\* system calls on one endpoint that block, wake and yield.
FrameSet == {ZeroFrame, [rax |-> 5, rdi |-> 1, rsi |-> 0, rdx |-> 3]}
FrameMaxTail == 2
FrameMaxProcs == 3

NextFrame ==
    \/ NEXT_EP < 1 /\ SysEpCreate
    \/ Cardinality({p \in Pid : PROCS[p].alive}) < FrameMaxProcs /\ SysProcSpawn(1, 2, 1)
    \/ tail_below(1, FrameMaxTail) /\ SysIpcSend(1, 0, 1)
    \/ wait_tail_below(1, FrameMaxTail) /\ SysIpcRecv(1, 0, 1)
    \/ SysYield
    \/ \E tf \in FrameSet : TimerIrq(tf)

SpecFrame == Init /\ [][NextFrame]_vars

\* The registers the timer stub pushed at the last interrupt.  (The model
\* keeps rax, rdi, rsi and rdx of the frame; the stub pushes and pops the
\* other registers and the iretq frame with the same instructions.)
irq_frame(l) == [rax |-> l.rcx, rdi |-> l.rdi, rsi |-> l.rsi, rdx |-> l.rdx]

\* C20: a timer IRQ never alters the interrupted process's saved frame: when
\* the scheduler returns 0 the process resumes with the registers it was
\* interrupted with; when it is switched away the frame saved for it is the
\* one pushed at the interrupt, no later step touches the saved frame of a
\* runnable process that is off the CPU, and a process is resumed through
\* exactly its saved frame.
C20_TimerKeepsFrame ==
    [][/\ last'.nr = TIMER
          => IF CURRENT' = CURRENT
             THEN regs' = irq_frame(last')
             ELSE PROCS'[CURRENT].tf = irq_frame(last')
       /\ \A q \in Pid :
             (/\ q # CURRENT /\ q # CURRENT'
              /\ PROCS[q].alive /\ PROCS[q].runnable)
             => PROCS'[q].tf = PROCS[q].tf
       /\ CURRENT' # CURRENT => regs' = PROCS[CURRENT'].tf]_vars

\* A tick has switched away a process interrupted with all-zero registers,
\* whose frame is saved, and resumed one that an earlier tick had interrupted
\* with non-zero registers, with those registers.
C20_Witness ==
    /\ last.nr = TIMER
    /\ last.rcx = 0
    /\ CURRENT # last.pid
    /\ PROCS[last.pid].tf = irq_frame(last)
    /\ regs.rax = 5 /\ regs.rdx = 3

\* ------------------------------------------------------------------------
\* Every kind of kernel entry, on one endpoint.
SysMaxTail == 1
SysMaxWaitTail == 2

NextSys ==
    \/ SysPutc(1)
    \/ SysYield
    \/ SysWrite(0, 1)
    \/ NEXT_EP < 1 /\ SysEpCreate
    \/ tail_below(1, SysMaxTail) /\ SysIpcSend(1, 0, 1)
    \/ wait_tail_below(1, SysMaxWaitTail) /\ SysIpcRecv(1, 0, 1)
    \/ \E x \in {0, 1} : tail_below(1, SysMaxTail) /\ SysIpcSendCap(1, 0, 1, x)
    \/ wait_tail_below(1, SysMaxWaitTail) /\ SysIpcRecvCap(1, 0, 1)
    \/ SysProcSpawn(1, 2, 1)
    \/ SysUnknown
    \/ \E tf \in TimerFrames : TimerIrq(tf)

SpecSys == Init /\ [][NextSys]_vars

\* The entry recorded in l is a receive that blocked its caller.
recv_blocked(l, procs) ==
    /\ l.nr \in {IPC_RECV, IPC_RECV_CAP}
    /\ procs[l.pid].blocked_ep # 0

\* C21: the current process changes only inside on_timer_irq or
\* yield_from_syscall (YIELD, or a receive that blocks): every other system
\* call returns 0 to the trampoline and leaves CURRENT, next_cr3 and TSS.RSP0
\* unchanged, even when a send wakes a blocked receiver or a spawn creates a
\* runnable child.
C21_SwitchOnlyAtYieldPoints ==
    [][(last'.nr \notin {TIMER, YIELD_} /\ ~recv_blocked(last', PROCS'))
       => /\ CURRENT' = CURRENT
          /\ MANTRA_NEXT_CR3' = MANTRA_NEXT_CR3
          /\ TSS_RSP0' = TSS_RSP0]_vars

\* A send has handed its message to a blocked receiver, which is runnable
\* again, and the sender is still the current process.
C21_Witness ==
    /\ last.nr = IPC_SEND
    /\ regs.rax = 1
    /\ CURRENT = last.pid
    /\ ENDPOINTS[1].tail = 0
    /\ ENDPOINTS[1].wait_head >= 1
    /\ \E q \in Pid : q # CURRENT /\ PROCS[q].alive /\ PROCS[q].runnable
                      /\ PROCS[q].tf.rax = 1 /\ PROCS[q].tf.rsi = 0

\* The argument registers of two frames agree.
same_args(f, g) == f.rdi = g.rdi /\ f.rsi = g.rsi /\ f.rdx = g.rdx

\* C22: every system call other than IPC_RECV_CAP changes only RAX in the
\* calling process's saved frame: RDI, RSI and RDX are the same when the
\* process resumes as when it trapped, also when an IPC_RECV that blocked is
\* completed later by a sender's direct delivery.
C22_OnlyRaxChanges ==
    [][/\ last'.nr \notin {TIMER, IPC_RECV_CAP}
          => IF CURRENT' = CURRENT
             THEN same_args(regs', last')
             ELSE same_args(PROCS'[CURRENT].tf, last')
       /\ \A q \in Pid :
             (/\ q # CURRENT /\ q # CURRENT'
              /\ PROCS[q].alive
              /\ ~(PROCS[q].blocked_ep # 0 /\ PROCS[q].tf.rax = IPC_RECV_CAP))
             => same_args(PROCS'[q].tf, PROCS[q].tf)]_vars

\* The system-call numbers the kernel knows.
KnownNrs == {PUTC, YIELD_, WRITE, IPC_EP_CREATE, IPC_SEND, IPC_RECV, IPC_SEND_CAP,
             IPC_RECV_CAP, PROC_SPAWN}

\* C23: a system call whose number is not one of the known ones returns MAX
\* in RAX, does not switch tasks, and leaves the process table, capability
\* tables, endpoints, user memory and allocator state unchanged.
C23_UnknownSyscallRefused ==
    [][(last'.nr # TIMER /\ last'.nr \notin KnownNrs)
       => /\ regs'.rax = U64_MAX
          /\ same_args(regs', last')
          /\ CURRENT' = CURRENT
          /\ PROCS' = PROCS
          /\ ENDPOINTS' = ENDPOINTS
          /\ NEXT_EP' = NEXT_EP
          /\ umem' = umem
          /\ pmm_free' = pmm_free /\ heap_free' = heap_free
          /\ halted' = halted]_vars

\* A process has made an unknown system call while another process was
\* runnable and a third was blocked, and is still running, with MAX in RAX.
C23_Witness ==
    /\ last.nr = UNKNOWN_NR
    /\ CURRENT = last.pid
    /\ regs.rax = U64_MAX
    /\ \E q \in Pid : q # CURRENT /\ PROCS[q].alive /\ PROCS[q].runnable
    /\ \E q \in Pid : PROCS[q].blocked_ep # 0

\* The number of bytes WRITE(ptr, len) is to emit: the bytes before the first
\* one that does not translate, and at most the clamp.
emit_count(ptr, len) ==
    LET n == Min(len, WRITE_MAX)
        bad == {i \in 0 .. (n - 1) : ~all_levels_PU(ptr + i)}
    IN  IF bad = {} THEN n ELSE MinOf(bad)

\* C30: WRITE(ptr, len) emits to the serial port, in address order, the
\* caller's bytes at ptr, ptr+1, ... up to the first byte that does not
\* translate or until min(len, clamp) bytes were emitted, and returns exactly
\* the number of bytes emitted.
C30_WriteEmitsPrefix ==
    [][last'.nr = WRITE
       => LET k == emit_count(last'.rdi, last'.rsi)
          IN  /\ regs'.rax = k
              /\ Len(serial_out') = k
              /\ \A i \in 1 .. k : serial_out'[i] = umem[CURRENT][last'.rdi + i - 1]
              /\ CURRENT' = CURRENT /\ umem' = umem]_vars

\* A WRITE that started on the last user page with a length of two has
\* emitted the one byte before the page that does not translate; that byte
\* had been received earlier, so it is not the byte of the initial image.
C30_Witness ==
    /\ last.nr = WRITE
    /\ last.rdi = USER_TOP - 1 /\ last.rsi = 2
    /\ regs.rax = 1
    /\ serial_out = <<umem[last.pid][USER_TOP - 1]>>
    /\ umem[last.pid][USER_TOP - 1] # InitImage[USER_TOP - 1]

\* A WRITE of more bytes than the clamp, all of them mapped, has emitted
\* bytes of two pages and stopped at the clamp.
C30_WitnessClamped ==
    /\ last.nr = WRITE
    /\ last.rsi > WRITE_MAX
    /\ \A i \in 0 .. (last.rsi - 1) : all_levels_PU(last.rdi + i)
    /\ Len(serial_out) = WRITE_MAX
    /\ regs.rax = WRITE_MAX

\* ------------------------------------------------------------------------
\* The frame allocator on its own: any of a family of region lists (usable
\* and kernel regions, unaligned, nested, overlapping, adjacent, reaching
\* into the low mebibyte, in any order), then alloc_pages / alloc_frame calls.
RegionBases == {0, LOW_MEM - 1, LOW_MEM, LOW_MEM + PAGE_SIZE + 1, 2 * LOW_MEM}
RegionLens == {0, PAGE_SIZE, LOW_MEM, LOW_MEM + 1, 3 * LOW_MEM}
RegionSet == [base : RegionBases, len : RegionLens, kind : {Usable, Kernel}]
ThirdRegions ==
    {[base |-> 2 * LOW_MEM, len |-> PAGE_SIZE, kind |-> Kernel],
     [base |-> LOW_MEM + PAGE_SIZE + 1, len |-> LOW_MEM + 1, kind |-> Usable]}
RegionLists ==
    {<<a, b>> : a \in RegionSet, b \in RegionSet}
        \cup {<<a, b, c>> : a \in RegionSet, b \in RegionSet, c \in ThirdRegions}
PageArgs == {0, 2, 3}

InitPmm ==
    /\ BootKernel(BUILD_FRAMES * InitBuilds, InitBuilds + 1)
    /\ \E rs \in RegionLists : PmmBoot(rs)
    /\ LoaderIdle
    /\ Booted

\* pmm::alloc_pages(pages)
AllocPages(pages) ==
    /\ Len(alloc_log) < MaxAllocs
    /\ LET a == alloc_pages(PMM, pages)
       IN  /\ PMM' = a.pmm
           /\ alloc_log' = Append(alloc_log, [pages |-> pages, ret |-> a.ret, before |-> PMM])
    /\ UNCHANGED <<regions, pmm_stats>>
    /\ UNCHANGED <<loader_vars, boot_vars>>
    /\ UNCHANGED kernel_vars

\* pmm::alloc_frame()
AllocFrame == AllocPages(1)

NextPmm ==
    \/ AllocFrame
    \/ \E n \in PageArgs : AllocPages(n)

SpecPmm == InitPmm /\ [][NextPmm]_vars

\* The calls of the log that returned a base.
granted == {i \in 1 .. Len(alloc_log) : alloc_log[i].ret # NONE}

\* The addresses of the range call i returned.
range_of(i) ==
    alloc_log[i].ret .. (alloc_log[i].ret + alloc_log[i].pages * PAGE_SIZE - 1)

\* C24: the frame ranges returned by successful allocations are pairwise
\* disjoint, every returned base is a multiple of the page size, and no
\* returned range intersects the first mebibyte.
C24_AllocationsDisjoint ==
    /\ \A i \in granted :
          /\ alloc_log[i].ret % PAGE_SIZE = 0
          /\ alloc_log[i].ret >= LOW_MEM
          /\ alloc_log[i].pages >= 1
    /\ \A i \in granted, j \in granted : i # j => range_of(i) \cap range_of(j) = {}

\* Three allocations have succeeded, from a map whose usable memory reached
\* into the first mebibyte.
C24_Witness ==
    /\ Cardinality(granted) = 3
    /\ \E k \in 1 .. Len(regions) : regions[k].kind = Usable /\ regions[k].base < LOW_MEM
                                    /\ regions[k].len > LOW_MEM

\* The bytes of a region.
bytes_of(r) == r.base .. (r.base + r.len - 1)

\* C25: no frame returned by alloc_pages touches a region whose kind is not
\* Usable (whose pages are reserved whole), and every returned frame lies
\* inside some Usable region.
C25_OnlyUsableMemory ==
    \A i \in granted :
        \A p \in range_of(i) :
            /\ \E k \in 1 .. Len(regions) :
                  regions[k].kind = Usable /\ p \in bytes_of(regions[k])
            /\ \A k \in 1 .. Len(regions) :
                  regions[k].kind # Usable
                  => \A b \in bytes_of(regions[k]) : b \div PAGE_SIZE # p \div PAGE_SIZE

\* Frames on both sides of a kernel region nested strictly inside a usable
\* region have been handed out.
C25_Witness ==
    \E k \in 1 .. Len(regions), u \in 1 .. Len(regions) :
        /\ regions[k].kind = Kernel /\ regions[k].len > 0
        /\ regions[u].kind = Usable
        /\ regions[u].base < regions[k].base
        /\ regions[k].base + regions[k].len < regions[u].base + regions[u].len
        /\ \E i \in granted : alloc_log[i].ret < regions[k].base
        /\ \E i \in granted : alloc_log[i].ret >= regions[k].base + regions[k].len

\* C26: alloc_pages(n) with n >= 1 returns none only when no free interval
\* holds n contiguous frames at the time of the call.
C26_NoneOnlyWhenExhausted ==
    \A i \in 1 .. Len(alloc_log) :
        (alloc_log[i].pages >= 1 /\ alloc_log[i].ret = NONE)
        => \A k \in 1 .. Len(alloc_log[i].before.ranges) :
              LET r == alloc_log[i].before.ranges[k]
              IN  r.end - r.base < alloc_log[i].pages * PAGE_SIZE

\* The allocator the log's call i left.
after(i) == IF i = Len(alloc_log) THEN PMM ELSE alloc_log[i + 1].before

\* The interval array is well formed.
well_formed(pmm) ==
    /\ \A k \in 1 .. Len(pmm.ranges) :
          /\ pmm.ranges[k].base % PAGE_SIZE = 0
          /\ pmm.ranges[k].end % PAGE_SIZE = 0
          /\ pmm.ranges[k].base <= pmm.ranges[k].end
          /\ pmm.ranges[k].base >= LOW_MEM
    /\ \A k \in 1 .. (Len(pmm.ranges) - 1) :
          /\ pmm.ranges[k].base < pmm.ranges[k + 1].base
          /\ pmm.ranges[k].end <= pmm.ranges[k + 1].base

\* C27: after a successful init and after every alloc_pages call the interval
\* bounds are page-aligned, the intervals are sorted by base and do not
\* overlap, none reaches into the first mebibyte, the cursor never
\* decreases, and successive successful allocations return strictly
\* increasing addresses.
C27_IntervalsWellFormed ==
    PMM.some
    => /\ well_formed(PMM)
       /\ \A i \in 1 .. Len(alloc_log) :
             /\ well_formed(alloc_log[i].before)
             /\ alloc_log[i].before.cursor <= after(i).cursor
       /\ \A i \in granted, j \in granted : i < j => alloc_log[i].ret < alloc_log[j].ret

\* Two usable regions listed out of order gave two intervals, and
\* allocations from both succeeded.
C27_Witness ==
    /\ PMM.some
    /\ Len(regions) = 2
    /\ regions[1].kind = Usable /\ regions[2].kind = Usable
    /\ regions[1].base > regions[2].base
    /\ Len(PMM.ranges) = 2
    /\ \E i \in granted : alloc_log[i].ret < PMM.ranges[1].end
    /\ \E i \in granted : alloc_log[i].ret >= PMM.ranges[2].base - alloc_log[i].pages * PAGE_SIZE
                          /\ alloc_log[i].ret > PMM.ranges[1].end

\* C28: given one Usable region from the first mebibyte up and one Kernel
\* region of one mebibyte at its start, init succeeds with the single free
\* interval from the second mebibyte up, reports its size as free_bytes, and
\* the first alloc_frame returns the second mebibyte.
C28_ReferenceMap ==
    regions = <<[base |-> LOW_MEM, len |-> MEM_TOP - LOW_MEM, kind |-> Usable],
                [base |-> LOW_MEM, len |-> LOW_MEM, kind |-> Kernel]>>
    => /\ IF alloc_log = <<>>
          THEN PMM = [some |-> TRUE,
                      ranges |-> <<[base |-> 2 * LOW_MEM, end |-> MEM_TOP]>>,
                      cursor |-> 0]
          ELSE alloc_log[1].before = [some |-> TRUE,
                                      ranges |-> <<[base |-> 2 * LOW_MEM, end |-> MEM_TOP]>>,
                                      cursor |-> 0]
       /\ pmm_stats.free_bytes = MEM_TOP - 2 * LOW_MEM
       /\ pmm_stats.range_count = 1
       /\ (alloc_log # <<>> /\ alloc_log[1].pages = 1) => alloc_log[1].ret = 2 * LOW_MEM

\* On the reference map the first call was alloc_frame.
C28_Witness ==
    /\ regions = <<[base |-> LOW_MEM, len |-> MEM_TOP - LOW_MEM, kind |-> Usable],
                   [base |-> LOW_MEM, len |-> LOW_MEM, kind |-> Kernel]>>
    /\ alloc_log # <<>>
    /\ alloc_log[1].pages = 1
    /\ alloc_log[1].ret # NONE

\* ------------------------------------------------------------------------
\* The user loader alone: one address space is built, for any placement of
\* the kernel image, the user stack and the code among the pages below the
\* HHDM slot.

KernelBases == {0, 1, ENTRIES * ENTRIES}
KernelLens == {1, 2}
StackBases == {1, 2, ENTRIES, ENTRIES * ENTRIES, ENTRIES * ENTRIES * ENTRIES}
SegStarts == {0, 2, 2 * ENTRIES, ENTRIES * ENTRIES + ENTRIES,
              ENTRIES * ENTRIES * ENTRIES + ENTRIES}
SegLens == {1, 2}
Segments ==
    {[seg_start |-> v, seg_end |-> v + n, w |-> w] :
        v \in SegStarts, n \in SegLens, w \in BOOLEAN}
SegmentLists == {<<a>> : a \in Segments} \cup {<<a, b>> : a \in Segments, b \in Segments}

InitLoad ==
    /\ BootKernel(BUILD_FRAMES * InitBuilds, InitBuilds + 1)
    /\ PmmBoot(BootRegions)
    /\ LoaderIdle
    /\ Booted

\* build_proc_from_init, as far as the page tables go.
BuildProc(kb, ke, stack_base, segs) ==
    /\ build_pc = "idle"
    /\ tables' = build_tables(kb, ke, stack_base, segs)
    /\ build_pc' = "built"
    /\ kernel_pages' = kb .. (ke - 1)
    /\ user_pages' = (stack_base .. (stack_base + STACK_PAGES - 1)) \cup seg_pages(segs)
    /\ UNCHANGED <<kernel_vars, pmm_vars, boot_vars>>

\* The build with an init ELF linked in.
BuildProcElf ==
    \E kb \in KernelBases, n \in KernelLens, stack_base \in StackBases, segs \in SegmentLists :
        BuildProc(kb, kb + n, stack_base, segs)

\* The build without one: one code page, mapped with U only.
BuildProcFallback ==
    \E kb \in KernelBases, n \in KernelLens, stack_base \in StackBases,
       user_code_v \in SegStarts :
        BuildProc(kb, kb + n, stack_base,
                  <<[seg_start |-> user_code_v, seg_end |-> user_code_v + 1, w |-> FALSE]>>)

NextLoad == BuildProcFallback \/ BuildProcElf

SpecLoad == InitLoad /\ [][NextLoad]_vars

\* C29: in every address space the user loader builds, the leaf entry of
\* every user page has U, and every PML4, PDPT and PD entry on the walk to a
\* leaf with U has U, also where the kernel identity map created the entry.
C29_UserWalkHasU ==
    build_pc = "built"
    => /\ \A v \in user_pages : {PTE_P, PTE_U} \subseteq tables[walk_path(v)]
       /\ \A path \in Paths :
             (Len(path) = 4 /\ {PTE_P, PTE_U} \subseteq tables[path])
             => \A k \in 1 .. 3 : {PTE_P, PTE_U} \subseteq tables[SubSeq(path, 1, k)]

\* A user page lies in the page table of a kernel page that stayed
\* supervisor-only: the PML4, PDPT and PD entries above it were made by the
\* identity map.
C29_Witness ==
    /\ build_pc = "built"
    /\ \E k \in kernel_pages \ user_pages, u \in user_pages :
          /\ SubSeq(walk_path(k), 1, 3) = SubSeq(walk_path(u), 1, 3)
          /\ tables[walk_path(k)] = {PTE_P, PTE_RW}
          /\ PTE_U \in tables[walk_path(u)]

\* ------------------------------------------------------------------------
\* main.rs: _start, from the hand-over by the boot loader to the first
\* return to user mode.  The frames paging::init and heap::init take from
\* the allocator are not followed here.

Magics == {0, MAGIC, 1414414669, MAGIC + 1}
Versions == {0, 1, VERSION, VERSION + 1}
BootInfos ==
    {[null |-> TRUE, magic |-> 0, version |-> 0]}
    \cup [null : {FALSE}, magic : Magics, version : Versions]

HandedRegions ==
    {<<>>, BootRegions}
    \cup {<<[base |-> b, len |-> n, kind |-> Usable]>> :
             b \in {0, LOW_MEM}, n \in {LOW_MEM, 3 * LOW_MEM}}

\* The statics of the kernel before anything was initialized.
StaticKernel ==
    /\ PROCS = [p \in Pid |-> DeadProc]
    /\ regs = ZeroFrame
    /\ CURRENT = 0
    /\ MANTRA_NEXT_CR3 = 0
    /\ TSS_RSP0 = 0
    /\ ENDPOINTS = [e \in EpId |-> EmptyEndpoint]
    /\ NEXT_EP = 0
    /\ umem = [p \in Pid |-> InitImage]
    /\ pmm_free = 0
    /\ heap_free = 0
    /\ halted = "no"
    /\ fifo = [e \in EpId |-> <<>>]
    /\ last = [pid |-> 0, nr |-> BOOT, rdi |-> 0, rsi |-> 0, rdx |-> 0, rcx |-> 0]
    /\ legit = [p \in Pid |-> {}]
    /\ stamp_ok = [e \in EpId |-> [i \in 0 .. (Q_LEN - 1) |-> TRUE]]
    /\ wait_order = [e \in EpId |-> <<>>]
    /\ serial_out = <<>>

InitBoot ==
    /\ StaticKernel
    /\ LoaderIdle
    /\ regions \in HandedRegions
    /\ PMM = NoPmm
    /\ pmm_stats = NoStats
    /\ alloc_log = <<>>
    /\ boot_info \in BootInfos
    /\ boot_pc = "entry"
    /\ inited = {}

\* A _start that does not look at the version.
KStartAnyVersion ==
    /\ boot_pc = "entry"
    /\ boot_pc' = IF boot_info.null THEN "hlt"
                  ELSE IF boot_info.magic # MAGIC THEN "hlt"
                  ELSE "pmm_init"
    /\ UNCHANGED <<kernel_vars, pmm_vars, loader_vars, boot_info, inited>>

\* _start up to the two checks of the record: a null pointer, a wrong magic
\* or a wrong version ends in a hlt loop.
KStart ==
    /\ boot_pc = "entry"
    /\ boot_pc' = IF boot_info.null THEN "hlt"
                  ELSE IF boot_info.magic # MAGIC \/ boot_info.version # VERSION THEN "hlt"
                  ELSE "pmm_init"
    /\ UNCHANGED <<kernel_vars, pmm_vars, loader_vars, boot_info, inited>>

\* The three alloc_frame calls that follow a successful pmm::init.
RECURSIVE alloc_frames(_, _, _)
alloc_frames(pmm, log, n) ==
    IF n = 0 THEN [pmm |-> pmm, log |-> log]
    ELSE LET a == alloc_pages(pmm, 1)
         IN  alloc_frames(a.pmm, Append(log, [pages |-> 1, ret |-> a.ret, before |-> pmm]),
                          n - 1)

\* pmm::init(regions) and, if it succeeds, the three test allocations; if it
\* fails _start ends in its final hlt loop.
KPmmInit ==
    /\ boot_pc = "pmm_init"
    /\ LET r == pmm_init(regions)
           t == alloc_frames(r.pmm, alloc_log, 3)
       IN  IF r.ok
           THEN /\ PMM' = t.pmm
                /\ alloc_log' = t.log
                /\ pmm_stats' = r.stats
                /\ inited' = inited \cup {"pmm"}
                /\ boot_pc' = "paging"
           ELSE /\ UNCHANGED <<PMM, alloc_log, pmm_stats, inited>>
                /\ boot_pc' = "pmm_failed"
    /\ UNCHANGED <<kernel_vars, regions, loader_vars, boot_info>>

\* arch::init_paging(max_phys).
KInitPaging ==
    /\ boot_pc = "paging"
    /\ inited' = inited \cup {"paging"}
    /\ boot_pc' = "heap"
    /\ UNCHANGED <<kernel_vars, pmm_vars, loader_vars, boot_info>>

\* heap::init().
KHeapInit ==
    /\ boot_pc = "heap"
    /\ inited' = inited \cup {"heap"}
    /\ boot_pc' = "enter_user"
    /\ UNCHANGED <<kernel_vars, pmm_vars, loader_vars, boot_info>>

\* enter_first_user: the first process is built and installed, and the CPU
\* goes to user mode.
KEnterUser ==
    /\ boot_pc = "enter_user"
    /\ inited' = inited \cup {"sched"}
    /\ boot_pc' = "user"
    /\ PROCS' = [p \in Pid |-> IF p = 0 THEN NewProc(0, POPPED) ELSE DeadProc]
    /\ regs' = build_initial_tf(0, 0)
    /\ CURRENT' = 0
    /\ MANTRA_NEXT_CR3' = 1
    /\ TSS_RSP0' = 1
    /\ pmm_free' = BUILD_FRAMES * InitBuilds
    /\ heap_free' = InitBuilds + 1
    /\ UNCHANGED <<ENDPOINTS, NEXT_EP, umem, halted, fifo, last, legit, stamp_ok,
                   wait_order, serial_out>>
    /\ UNCHANGED <<pmm_vars, loader_vars, boot_info>>

NextBoot == KStart \/ KPmmInit \/ KInitPaging \/ KHeapInit \/ KEnterUser

SpecBoot == InitBoot /\ [][NextBoot]_vars

\* C31 as the specification states it, with the magic 0x544E414D: the kernel
\* goes on from the hand-over exactly when the record is not null, its magic
\* is 0x544E414D and its version is 2.
C31_MagicOfTheSpec ==
    boot_pc \notin {"entry", "hlt"}
    => (~boot_info.null /\ boot_info.magic = 1414414669 /\ boot_info.version = 2)

\* C31, amended: the kernel goes on from the hand-over to pmm::init only when
\* the record is not null, its magic is BootInfo::MAGIC = 0x4D414E54 and its
\* version is 2; otherwise it halts with the PMM, paging and the scheduler
\* uninitialized.
C31_HandoffChecked ==
    /\ boot_pc \notin {"entry", "hlt"}
       => (~boot_info.null /\ boot_info.magic = 1296125524 /\ boot_info.version = 2)
    /\ (boot_pc # "entry"
        /\ (boot_info.null \/ boot_info.magic # 1296125524 \/ boot_info.version # 2))
       => /\ boot_pc = "hlt"
          /\ inited = {}
          /\ ~PMM.some
          /\ \A p \in Pid : ~PROCS[p].alive

\* A record with the magic 0x4D414E54 and version 2 was accepted and the
\* kernel reached user mode with everything initialized.
C31_Witness ==
    /\ boot_pc = "user"
    /\ boot_info.magic = 1296125524
    /\ boot_info.version = 2
    /\ inited = {"pmm", "paging", "heap", "sched"}
    /\ PROCS[0].alive

\* C32: after install_first, at every return from a timer or system call
\* handler next_cr3 is the address-space root of the current process and
\* TSS.RSP0 is its kernel stack top; when the current process is unchanged
\* the frame that trapped is resumed (the handler returned 0), and otherwise
\* the frame resumed is the one saved in the slot of the new current process.
C32_ReturnMatchesCurrent ==
    /\ MANTRA_NEXT_CR3 = PROCS[CURRENT].cr3
    /\ TSS_RSP0 = PROCS[CURRENT].kstack_top
    /\ [][/\ MANTRA_NEXT_CR3' = PROCS'[CURRENT'].cr3
          /\ TSS_RSP0' = PROCS'[CURRENT'].kstack_top
          /\ IF CURRENT' = CURRENT
             THEN /\ regs'.rdi = last'.rdi
                  /\ regs'.rsi = last'.rsi
             ELSE /\ regs' = PROCS[CURRENT'].tf
                  /\ PROCS'[CURRENT].tf.rdi = last'.rdi
                  /\ PROCS'[CURRENT].tf.rsi = last'.rsi]_vars

\* The spawned child yielded and the first process, which had left the CPU
\* in a receive that blocked and was woken since, is resumed with the frame
\* saved then; next_cr3 and TSS.RSP0 are its own again.
C32_Witness ==
    /\ last.nr = YIELD_
    /\ last.pid = 1
    /\ CURRENT = 0
    /\ regs.rdi = 1
    /\ regs.rax = 1
    /\ MANTRA_NEXT_CR3 = PROCS[0].cr3
    /\ TSS_RSP0 = PROCS[0].kstack_top
    /\ MANTRA_NEXT_CR3 # PROCS[1].cr3

\* ------------------------------------------------------------------------
\* pick_next_runnable alone, on every process table: the flags of the slots
\* and the current slot are arbitrary.

FlagTables ==
    [Pid -> {[alive |-> a, runnable |-> r] : a \in BOOLEAN, r \in BOOLEAN}]

InitPick ==
    /\ \E f \in FlagTables :
          PROCS = [p \in Pid |-> [NewProc(p, ZeroFrame) EXCEPT !.alive = f[p].alive,
                                                             !.runnable = f[p].runnable]]
    /\ CURRENT \in Pid
    /\ regs = ZeroFrame
    /\ MANTRA_NEXT_CR3 = CURRENT + 1
    /\ TSS_RSP0 = CURRENT + 1
    /\ ENDPOINTS = [e \in EpId |-> EmptyEndpoint]
    /\ NEXT_EP = 0
    /\ umem = [p \in Pid |-> InitImage]
    /\ pmm_free = 0
    /\ heap_free = 0
    /\ halted = "no"
    /\ fifo = [e \in EpId |-> <<>>]
    /\ last = [pid |-> CURRENT, nr |-> BOOT, rdi |-> 0, rsi |-> 0, rdx |-> 0, rcx |-> 0]
    /\ legit = [p \in Pid |-> {}]
    /\ stamp_ok = [e \in EpId |-> [i \in 0 .. (Q_LEN - 1) |-> TRUE]]
    /\ wait_order = [e \in EpId |-> <<>>]
    /\ serial_out = <<>>
    /\ PmmBoot(BootRegions)
    /\ LoaderIdle
    /\ Booted

\* let next = pick_next_runnable(cur), with the slot it was called for kept
\* in the history.
PickNext ==
    /\ CURRENT' = pick_next_runnable(PROCS, CURRENT)
    /\ last' = [last EXCEPT !.pid = CURRENT]
    /\ UNCHANGED <<PROCS, regs, MANTRA_NEXT_CR3, TSS_RSP0, ENDPOINTS, NEXT_EP, umem,
                   pmm_free, heap_free, halted, fifo, legit, stamp_ok, wait_order,
                   serial_out>>
    /\ UNCHANGED <<pmm_vars, loader_vars, boot_vars>>

NextPick == PickNext

SpecPick == InitPick /\ [][NextPick]_vars

\* The slots other than cur that are alive and runnable.
other_ready(procs, cur) == {p \in Pid \ {cur} : procs[p].alive /\ procs[p].runnable}

\* How many slots after cur the slot p comes in the cyclic order.
cyclic_distance(cur, p) == (p + MAX_PROCS - cur) % MAX_PROCS

\* C33: pick_next_runnable(cur) returns the alive and runnable slot with the
\* smallest positive cyclic distance from cur; it returns cur when cur is the
\* only such slot and when there is none at all.
C33_PickIsNearestReady ==
    [][IF other_ready(PROCS, CURRENT) = {}
       THEN CURRENT' = CURRENT
       ELSE /\ CURRENT' \in other_ready(PROCS, CURRENT)
            /\ \A q \in other_ready(PROCS, CURRENT) :
                  cyclic_distance(CURRENT, CURRENT') <= cyclic_distance(CURRENT, q)]_vars

\* The scan wrapped around the end of the table: called for the last slot
\* with every slot ready, it picked slot 0.
C33_Witness ==
    /\ last.pid = MAX_PROCS - 1
    /\ CURRENT = 0
    /\ \A p \in Pid : PROCS[p].alive /\ PROCS[p].runnable

\* C34: after install_first, as long as the kernel runs, the process that
\* returns to user mode is alive and runnable (so at least one alive process
\* is runnable): no sequence of receives, sends, yields, spawns and timer
\* ticks blocks every process or resumes a blocked one.
C34_CurrentIsRunnable ==
    halted = "no"
    => /\ PROCS[CURRENT].alive
       /\ PROCS[CURRENT].runnable
       /\ PROCS[CURRENT].blocked_ep = 0

\* Every other process is blocked, and the receive of the last runnable one
\* on an empty endpoint came back with the empty code instead of blocking.
C34_Witness ==
    /\ halted = "no"
    /\ last.nr \in {IPC_RECV, IPC_RECV_CAP}
    /\ last.pid = CURRENT
    /\ regs.rax = ERR_EMPTY
    /\ \E q \in Pid : q # CURRENT /\ PROCS[q].alive
    /\ \A q \in Pid : (q # CURRENT /\ PROCS[q].alive) => ~PROCS[q].runnable

\* The waiter list of endpoint e, oldest first.
waiter_list(e) ==
    [i \in 1 .. (ENDPOINTS[e].wait_tail - ENDPOINTS[e].wait_head) |->
        ENDPOINTS[e].waiters[(ENDPOINTS[e].wait_head + i - 1) % MAX_WAITERS]]

\* How often process p occurs in the waiter list of endpoint e.
times_waiting(e, p) ==
    Cardinality({i \in 1 .. Len(waiter_list(e)) : waiter_list(e)[i] = p})

\* C35: for every alive process p, p is not runnable if and only if
\* blocked_ep(p) is not zero, and if and only if p occurs exactly once in the
\* waiter list of endpoint blocked_ep(p) and in no other waiter list; a
\* runnable process occurs in no waiter list.
C35_BlockedIffWaiting ==
    \A p \in Pid :
        PROCS[p].alive
        => /\ ~PROCS[p].runnable <=> PROCS[p].blocked_ep # 0
           /\ IF PROCS[p].runnable
              THEN \A e \in EpId : times_waiting(e, p) = 0
              ELSE \A e \in EpId :
                      times_waiting(e, p) = IF e = PROCS[p].blocked_ep THEN 1 ELSE 0

C37_FailedReceiveKeepsMessage ==
    [][(/\ last'.nr \in {IPC_RECV, IPC_RECV_CAP}
        /\ CURRENT' = CURRENT
        /\ regs'.rax = U64_MAX)
       => \A e \in EpId :
             /\ ENDPOINTS'[e].head = ENDPOINTS[e].head
             /\ ENDPOINTS'[e].tail = ENDPOINTS[e].tail
             /\ ENDPOINTS'[e].buf = ENDPOINTS[e].buf]_vars

\* ------------------------------------------------------------------------
\* The waiter ring of one endpoint shared by every process, with its
\* counters followed past several turns of the ring.

WaitRingMaxTail == 7

NextWaitRing ==
    \/ NEXT_EP < 1 /\ SysEpCreate
    \/ SysProcSpawn(1, 1, 1)
    \/ tail_below(1, 1) /\ SysIpcSend(1, 0, 1)
    \/ \E p \in {0, USER_TOP} :
          wait_tail_below(1, WaitRingMaxTail) /\ SysIpcRecv(1, p, 1)
    \/ SysYield
    \/ \E tf \in TimerFrames : TimerIrq(tf)

SpecWaitRing == Init /\ [][NextWaitRing]_vars

\* C38: with at most MAX_PROCS processes, waiter_push called from a blocking
\* receive succeeds: a receive on an empty endpoint comes back with the empty
\* code only when no other process is runnable, and the waiter ring never
\* holds more waiters than it has slots, whatever the values of wait_head and
\* wait_tail.
C38_WaiterPushSucceeds ==
    /\ [](\A e \in EpId :
             /\ ENDPOINTS[e].wait_head <= ENDPOINTS[e].wait_tail
             /\ ENDPOINTS[e].wait_tail - ENDPOINTS[e].wait_head <= MAX_WAITERS)
    /\ [][(/\ last'.nr \in {IPC_RECV, IPC_RECV_CAP}
           /\ CURRENT' = CURRENT
           /\ regs'.rax = ERR_EMPTY)
          => ~\E q \in Pid : q # CURRENT /\ PROCS[q].alive /\ PROCS[q].runnable]_vars

\* A process blocked after the counters had gone once around the ring, while
\* another was already waiting.
C38_Witness ==
    \E e \in EpId :
        /\ ENDPOINTS[e].wait_head >= MAX_WAITERS
        /\ ENDPOINTS[e].wait_tail - ENDPOINTS[e].wait_head = MAX_PROCS - 1
        /\ last.nr = IPC_RECV
        /\ PROCS[last.pid].blocked_ep = e

\* ------------------------------------------------------------------------
\* The scheduler under a timer that keeps firing: the PIT interrupt is
\* unmasked while user code runs, so a tick that stays possible is taken.

NextTimer ==
    \/ NEXT_EP < 1 /\ SysEpCreate
    \/ SysProcSpawn(1, 1, 1)
    \/ tail_below(1, CapMaxTail) /\ SysIpcSend(1, 0, 1)
    \/ wait_tail_below(1, MaxWaitTail) /\ SysIpcRecv(1, 0, 1)
    \/ SysYield
    \/ \E tf \in TimerFrames : TimerIrq(tf)

SpecTimer ==
    Init /\ [][NextTimer]_vars /\ WF_vars(\E tf \in TimerFrames : TimerIrq(tf))

ready(p) == PROCS[p].alive /\ PROCS[p].runnable

\* C39: while timer interrupts keep arriving, an alive and runnable process
\* becomes the current one: every tick that finds another ready process
\* switches, every task switch brings the current slot nearer (in the cyclic
\* order) to every ready process, so at most MAX_PROCS - 1 switches pass; a
\* receiver woken by direct delivery is such a process.
C39_RunnableGetsCpu ==
    /\ \A p \in Pid : (user_runs /\ ready(p)) ~> (CURRENT = p \/ ~user_runs)
    /\ [][/\ (last'.nr = TIMER /\ other_ready(PROCS, CURRENT) # {})
              => CURRENT' # CURRENT
          /\ CURRENT' # CURRENT
              => \A p \in other_ready(PROCS, CURRENT) :
                    /\ ready(p)'
                    /\ cyclic_distance(CURRENT', p) < cyclic_distance(CURRENT, p)]_vars

\* A tick resumes a child that had blocked in a receive and was handed a
\* one-byte message by a sender: it returns from the receive with length 1.
C39_Witness ==
    /\ last.nr = TIMER
    /\ CURRENT # last.pid
    /\ CURRENT >= 1
    /\ regs.rax = 1
    /\ \E e \in EpId : ENDPOINTS[e].wait_head >= 1

\* ------------------------------------------------------------------------
\* The supervisor-only part of a built address space.

\* The pages of the kernel image whose identity leaf is still in place: no
\* user stack page or segment page was mapped at the same address afterwards.
identity_pages == kernel_pages \ user_pages

\* The page numbers behind the HHDM slot of the PML4.
hhdm_pages == {v \in 0 .. (ENTRIES * ENTRIES * ENTRIES * ENTRIES - 1) :
                  walk_path(v)[1] = HHDM_SLOT}

\* The walk for a user pointer gets through: P and U at all four levels.
user_walk(v) ==
    \A k \in 1 .. 4 : {PTE_P, PTE_U} \subseteq tables[SubSeq(walk_path(v), 1, k)]

\* C40: in every address space the user loader builds, no leaf of the kernel
\* identity map and no entry of the HHDM carries U, also where
\* get_or_alloc_table has put U on the PML4, PDPT and PD entries the identity
\* map shares with user pages; no address of the kernel image or of the HHDM
\* gets through the walk for user pointers.
C40_KernelLeavesSupervisor ==
    build_pc = "built"
    => /\ \A k \in identity_pages :
             /\ PTE_P \in tables[walk_path(k)]
             /\ PTE_U \notin tables[walk_path(k)]
       /\ \A path \in Paths : path[1] = HHDM_SLOT => PTE_U \notin tables[path]
       /\ \A v \in identity_pages \cup hhdm_pages : ~user_walk(v)

\* A kernel page whose PML4, PDPT and PD entries were all given U for a user
\* page in the same page table, its own leaf still supervisor-only, in an
\* address space whose HHDM huge pages are present.
C40_Witness ==
    /\ build_pc = "built"
    /\ \E k \in identity_pages :
          /\ \A n \in 1 .. 3 : {PTE_P, PTE_U} \subseteq tables[SubSeq(walk_path(k), 1, n)]
          /\ \E u \in user_pages : SubSeq(walk_path(u), 1, 3) = SubSeq(walk_path(k), 1, 3)
          /\ PTE_U \notin tables[walk_path(k)]
    /\ \E v \in hhdm_pages : PTE_PS \in tables[SubSeq(walk_path(v), 1, 3)]

====
